---- MODULE Spec2Model ----
(***************************************************************************)
(* Two browser peers running src/src/App.tsx: the manual offer/answer      *)
(* exchange that bootstraps one RTCPeerConnection per peer, the data       *)
(* channel that carries the call-signalling envelopes, and the call state  *)
(* machine with its asynchronous handlers.  Every async handler is split   *)
(* at its awaits: the code between two awaits is one atomic step, and a    *)
(* suspended handler is a record in tasks[p].                              *)
(*                                                                         *)
(* The browser (RTCPeerConnection, RTCDataChannel, getUserMedia) is the    *)
(* environment: its events are actions, its promise outcomes are chosen    *)
(* nondeterministically among the outcomes the platform produces.          *)
(***************************************************************************)
EXTENDS Naturals, Integers, Sequences, FiniteSets, Bags, TLC

VARIABLES
    pcConn,            \* pc.connectionState per peer, "none" while pc is null
    pcSig,             \* pc.signalingState
    pcLocal,           \* pc.localDescription
    pcRemote,          \* pc.remoteDescription
    pcCur,             \* the descriptions of the last completed negotiation
    iceGathering,      \* pc.iceGatheringState
    senders,           \* local streams whose tracks sit on a sender of pc
    dataChannel,       \* the module-level dataChannel handle (0 is null)
    dcEnd,             \* readyState of each channel at each end
    net,               \* frames in flight: net[c][p] were sent by p on c
    connectionStatus,  \* signal connectionStatus
    mounted,           \* FALSE once the component's onCleanup has run
    showChatWindow,    \* signal showChatWindow: the chat window is rendered
    chatSent,          \* the chat texts each peer handed to dataChannel.send, in order
    chatMessages,      \* signal chatMessages
    localSDP,          \* signal localSDP
    remoteSDP,         \* signal remoteSDP
    callStatus,        \* signal callStatus
    isInCall,          \* signal isInCall
    incomingCall,      \* signal incomingCall (TRUE when non-null)
    localStream,       \* signal localStream (0 is null)
    remoteStream,      \* signal remoteStream (TRUE when non-null)
    isAudioMuted,      \* signal isAudioMuted
    isVideoMuted,      \* signal isVideoMuted
    live,              \* captures whose tracks have not been stopped
    trackOff,          \* <<capture, kind>> of the live tracks with enabled = false
    nStreams,          \* captures handed out by getUserMedia so far
    tasks,             \* suspended async handlers of each peer (a bag)
    logged,            \* the refusal or error line the last step appended to a peer's log
    nEvents,           \* spontaneous events so far: calls started, transport
                       \* degradations, mute toggles, offers after the first,
                       \* chat texts sent, texts typed, teardowns
    nOffers,           \* createOffer invocations so far (= channels created)
    nApply             \* applyRemoteSDP invocations so far on a session not yet
                       \* connected (on a connected one they count as events)

pcVars == <<pcConn, pcSig, pcLocal, pcRemote, pcCur, iceGathering>>
chanVars == <<dataChannel, dcEnd>>
sdpVars == <<localSDP, remoteSDP>>
callVars == <<callStatus, isInCall, incomingCall>>
muteVars == <<isAudioMuted, isVideoMuted>>
mediaVars == <<localStream, remoteStream, isAudioMuted, isVideoMuted, live, trackOff, nStreams, senders>>
ctrVars == <<nEvents, nOffers, nApply>>
vars == <<pcVars, chanVars, net, connectionStatus, mounted, showChatWindow, chatSent, chatMessages, sdpVars, callVars, mediaVars, tasks, logged, ctrVars>>

\* ---------------------------------------------------------------- bounds
MaxEvents == 2
MaxOffers == 2
MaxApply == 2

Peers == {"A", "B"}
Other(p) == IF p = "A" THEN "B" ELSE "A"
Channels == 1..MaxOffers

\* ------------------------------------------------------- values on the wire
NoDesc == [type |-> "none", from |-> "none", media |-> FALSE]
Desc(t, p, m) == [type |-> t, from |-> p, media |-> m]

\* The sdp string of a description, as a sequence of characters: its lines
\* end in CR LF; the origin line names the peer, the media line says whether
\* audio/video sections are present.
Sdp(d) ==
    <<"v=0", "CR", "LF", d.from, "CR", "LF",
      IF d.media THEN "m=video" ELSE "m=application", "CR", "LF">>

RECURSIVE Escape(_)
RECURSIVE Unescape(_)

\* JSON.stringify as it would be if it copied every character unescaped.
EscapeCharVerbatim(ch) == <<ch>>

\* JSON.stringify of a string escapes control characters, the quote and the
\* backslash (BS); JSON.parse undoes it and throws on a bare control
\* character or quote and on an unknown escape.
EscapeChar(ch) ==
    CASE ch = "CR" -> <<"BS", "r">>
      [] ch = "LF" -> <<"BS", "n">>
      [] ch = "BS" -> <<"BS", "BS">>
      [] ch = "QUOTE" -> <<"BS", "QUOTE">>
      [] OTHER -> <<ch>>
Escape(s) == IF s = <<>> THEN <<>> ELSE EscapeChar(Head(s)) \o Escape(Tail(s))

UnescapeChar(ch) ==
    CASE ch = "r" -> "CR" [] ch = "n" -> "LF" [] OTHER -> ch
Thrown == [ok |-> FALSE, val |-> <<>>]
Unescape(s) ==
    IF s = <<>> THEN [ok |-> TRUE, val |-> <<>>]
    ELSE IF Head(s) = "BS"
    THEN IF Len(s) < 2 \/ s[2] \notin {"r", "n", "BS", "QUOTE"} THEN Thrown
         ELSE LET rest == Unescape(SubSeq(s, 3, Len(s))) IN
              IF rest.ok THEN [ok |-> TRUE, val |-> <<UnescapeChar(s[2])>> \o rest.val]
              ELSE Thrown
    ELSE IF Head(s) \in {"CR", "LF", "QUOTE"} THEN Thrown
    ELSE LET rest == Unescape(Tail(s)) IN
         IF rest.ok THEN [ok |-> TRUE, val |-> <<Head(s)>> \o rest.val] ELSE Thrown

\* A text is what JSON.stringify produced ("json": the type field and the
\* escaped sdp string), text that is not JSON ("raw"), or the empty string.
EmptyText == [kind |-> "empty", type |-> "none", body |-> <<>>]
RawText == [kind |-> "raw", type |-> "none", body |-> <<>>]
Stringify(d) == [kind |-> "json", type |-> d.type, body |-> Escape(Sdp(d))]
Parses(t) == t.kind = "json" /\ Unescape(t.body).ok
\* JSON.parse: an object with the type and the unescaped sdp string, read
\* back here as the description that string stands for.
Parse(t) ==
    LET sdp == Unescape(t.body).val IN
    [type |-> t.type,
     from |-> IF Len(sdp) >= 4 THEN sdp[4] ELSE "none",
     media |-> \E i \in 1..Len(sdp) : sdp[i] = "m=video"]

\* A frame on the channel is a text: kind says what JSON.parse makes of it
\* ("object", "scalar", or "invalid" when it throws), type and message are
\* the fields of the parsed object (Undefined when absent), raw is the text
\* itself where the code keeps it.
Undefined == "undefined"
CallTypes == {"call-request", "call-accept", "call-decline", "call-offer", "call-answer", "call-end"}
Frame(t, d) == [kind |-> "object", type |-> t, sdp |-> d, message |-> Undefined, raw |-> "envelope"]
ChatFrame(m) == [kind |-> "object", type |-> "chat", sdp |-> NoDesc, message |-> m, raw |-> "envelope"]

\* The texts a user types into a chat box.
ChatTexts == {"hello"}
RawTexts == {"hello", "42", "{\"a\":1}"}
JsonKind(x) == CASE x = "hello" -> "invalid" [] x = "42" -> "scalar" [] OTHER -> "object"
RawFrame(x) == [kind |-> JsonKind(x), type |-> Undefined, sdp |-> NoDesc, message |-> Undefined, raw |-> x]

Task(f, a, d) == [fn |-> f, at |-> a, sdp |-> d]
Spawn(p, t) == [tasks EXCEPT ![p] = @ (+) SetToBag({t})]
Retire(p, t) == [tasks EXCEPT ![p] = @ (-) SetToBag({t})]
Move(p, t, u) == [tasks EXCEPT ![p] = (@ (-) SetToBag({t})) (+) SetToBag({u})]
Pending(p) == BagToSet(tasks[p])

\* appendLog, kept to the line the last step appended when that line reports a
\* refusal or an error; every other line is Quiet.
Quiet == [peer |-> "none", line |-> "ok"]
Log(p, l) == [peer |-> p, line |-> l]

Init ==
    /\ pcConn = [p \in Peers |-> "none"]
    /\ pcSig = [p \in Peers |-> "stable"]
    /\ pcLocal = [p \in Peers |-> NoDesc]
    /\ pcRemote = [p \in Peers |-> NoDesc]
    /\ pcCur = [p \in Peers |-> [local |-> NoDesc, remote |-> NoDesc]]
    /\ iceGathering = [p \in Peers |-> "new"]
    /\ senders = [p \in Peers |-> {}]
    /\ dataChannel = [p \in Peers |-> 0]
    /\ dcEnd = [c \in Channels |-> [p \in Peers |-> "none"]]
    /\ net = [c \in Channels |-> [p \in Peers |-> <<>>]]
    /\ connectionStatus = [p \in Peers |-> "disconnected"]
    /\ mounted = [p \in Peers |-> TRUE]
    /\ showChatWindow = [p \in Peers |-> FALSE]
    /\ chatSent = [p \in Peers |-> <<>>]
    /\ chatMessages = [p \in Peers |-> <<>>]
    /\ localSDP = [p \in Peers |-> EmptyText]
    /\ remoteSDP = [p \in Peers |-> EmptyText]
    /\ callStatus = [p \in Peers |-> "idle"]
    /\ isInCall = [p \in Peers |-> FALSE]
    /\ incomingCall = [p \in Peers |-> FALSE]
    /\ localStream = [p \in Peers |-> 0]
    /\ remoteStream = [p \in Peers |-> FALSE]
    /\ isAudioMuted = [p \in Peers |-> FALSE]
    /\ isVideoMuted = [p \in Peers |-> FALSE]
    /\ live = [p \in Peers |-> {}]
    /\ trackOff = [p \in Peers |-> {}]
    /\ nStreams = [p \in Peers |-> 0]
    /\ tasks = [p \in Peers |-> EmptyBag]
    /\ logged = Quiet
    /\ nEvents = 0
    /\ nOffers = 0
    /\ nApply = 0

\* ------------------------------------------------ RTCPeerConnection (platform)

\* createPeerConnectionWithStatus: the connection state of pc after the call.
CreatePeerConnectionWithStatus(p) == IF pcConn[p] = "none" THEN "new" ELSE pcConn[p]

\* setLocalDescription(offer) is accepted in stable and have-local-offer.
CanSetLocalOffer(p) == pcSig[p] \in {"stable", "have-local-offer"}
\* setRemoteDescription(answer) needs an outstanding local offer.
CanSetRemoteAnswer(p, d) == d.type = "answer" /\ pcSig[p] = "have-local-offer"
\* createAnswer / setLocalDescription(answer) need a remote offer.
CanSetLocalAnswer(p) == pcSig[p] = "have-remote-offer"

\* The two peers completed one offer/answer round with each other: each
\* holds, as its current remote description, the other's current local one.
Negotiated ==
    \E a \in Peers :
        /\ pcCur[a].local # NoDesc /\ pcCur[Other(a)].local # NoDesc
        /\ pcCur[Other(a)].remote.from = a
        /\ pcCur[a].remote.from = Other(a)

\* ------------------------------------------------------------ sending

\* sendCallMessage: the frames in flight after p sends f, n being
\* the frames in flight before.  The frame is
\* dropped (and only logged) when the handle is null or not open.
SendFails(p) == dataChannel[p] = 0 \/ dcEnd[dataChannel[p]][p] # "open"
SendLog(p) ==
    IF SendFails(p) THEN Log(p, "Cannot send call message - data channel not ready") ELSE Quiet
SendCallMessage(n, p, f) ==
    IF SendFails(p)
    THEN n
    ELSE [n EXCEPT ![dataChannel[p]][p] = Append(@, f)]

\* ----------------------------------------------------- manual negotiation

\* A createOffer or applyRemoteSDP of p is suspended: the operator lets one
\* step of the manual exchange finish before clicking again.
ManualBusy(p) ==
    \E t \in Pending(p) : t.fn \in {"createOffer", "createAnswerFromRemote", "applyRemoteSDP"}

\* createOffer up to its first await (pc.createOffer()).
CreateOffer(p) ==
    /\ mounted[p]
    /\ ~isInCall[p]
    /\ ~ManualBusy(p)
    /\ nOffers < MaxOffers
    /\ nOffers = 0 \/ nEvents < MaxEvents
    /\ nEvents' = IF nOffers = 0 THEN nEvents ELSE nEvents + 1
    /\ pcConn' = [pcConn EXCEPT ![p] = CreatePeerConnectionWithStatus(p)]
    /\ dataChannel' = [dataChannel EXCEPT ![p] = nOffers + 1]
    /\ dcEnd' = [dcEnd EXCEPT ![nOffers + 1][p] = "connecting"]
    /\ nOffers' = nOffers + 1
    /\ tasks' = Spawn(p, Task("createOffer", "offer", NoDesc))
    /\ logged' = Quiet
    /\ UNCHANGED <<pcSig, pcLocal, pcRemote, pcCur, iceGathering, net, connectionStatus, mounted, showChatWindow, chatSent, chatMessages,
                   sdpVars, callVars, mediaVars, nApply>>

\* createOffer: pc.createOffer() and setLocalDescription(offer) resolve.  A
\* rejection leaves createOffer and is logged by the button's handler.
CreateOfferSetLocal(p) ==
    LET t == Task("createOffer", "offer", NoDesc) IN
    /\ t \in Pending(p)
    /\ IF CanSetLocalOffer(p)
       THEN /\ pcLocal' = [pcLocal EXCEPT ![p] = Desc("offer", p, senders[p] # {})]
            /\ pcSig' = [pcSig EXCEPT ![p] = "have-local-offer"]
            /\ iceGathering' = [iceGathering EXCEPT ![p] = IF @ = "new" THEN "gathering" ELSE @]
            /\ tasks' = Move(p, t, Task("createOffer", "ice", NoDesc))
       ELSE /\ tasks' = Retire(p, t)
            /\ UNCHANGED <<pcLocal, pcSig, iceGathering>>
    /\ logged' = IF CanSetLocalOffer(p) THEN Quiet ELSE Log(p, "Failed to create offer")
    /\ UNCHANGED <<pcConn, pcRemote, pcCur, chanVars, net, connectionStatus, mounted, showChatWindow, chatSent, chatMessages, sdpVars,
                   callVars, mediaVars, ctrVars>>

\* The platform finishes candidate gathering (onicecandidate with a null
\* candidate only logs).
IceGatheringComplete(p) ==
    /\ iceGathering[p] = "gathering"
    /\ pcConn[p] # "closed"
    /\ iceGathering' = [iceGathering EXCEPT ![p] = "complete"]
    /\ logged' = Quiet
    /\ UNCHANGED <<pcConn, pcSig, pcLocal, pcRemote, pcCur, chanVars, net, connectionStatus, mounted, showChatWindow, chatSent, chatMessages,
                   sdpVars, callVars, mediaVars, tasks, ctrVars>>

\* waitForIceGatheringComplete as it would be if it also resolved while
\* candidates are still being gathered.
WaitResolvesWhileGathering(p) == iceGathering[p] \in {"gathering", "complete"}

\* waitForIceGatheringComplete resolves only in state complete; createOffer
\* and createAnswerFromRemote then publish pc.localDescription.
WaitForIceGatheringComplete(p) == iceGathering[p] = "complete"

PublishLocalSDP(p) ==
    \E f \in {"createOffer", "createAnswerFromRemote"} :
        LET t == Task(f, "ice", NoDesc) IN
        /\ t \in Pending(p)
        /\ WaitForIceGatheringComplete(p)
        /\ localSDP' = [localSDP EXCEPT ![p] = Stringify(pcLocal[p])]
        /\ tasks' = Retire(p, t)
        /\ logged' = Quiet
        /\ UNCHANGED <<pcVars, chanVars, net, connectionStatus, mounted, showChatWindow, chatSent, chatMessages, remoteSDP,
                       callVars, mediaVars, ctrVars>>

\* The operator carries the peer's published Local SDP to the Remote SDP box
\* (onInput / auto-paste: setRemoteSDP(text), taken only for non-empty text).
PasteRemoteSDP(p) ==
    /\ mounted[p]
    /\ nApply < MaxApply
    /\ localSDP[Other(p)] # EmptyText
    /\ remoteSDP[p] # localSDP[Other(p)]
    /\ remoteSDP' = [remoteSDP EXCEPT ![p] = localSDP[Other(p)]]
    /\ logged' = Quiet
    /\ UNCHANGED <<pcVars, chanVars, net, connectionStatus, mounted, showChatWindow, chatSent, chatMessages, localSDP,
                   callVars, mediaVars, tasks, ctrVars>>

\* JSON text whose type is neither offer nor answer.
OtherText == [kind |-> "json", type |-> "other", body |-> <<>>]

\* What a user may put into the Remote SDP box by hand: text that is not
\* JSON, JSON of an unknown type, or a description of the peer kept from
\* earlier.
TypedTexts(p) ==
    {RawText, OtherText, Stringify(Desc("answer", Other(p), FALSE)),
     Stringify(Desc("offer", Other(p), FALSE))}

\* The Remote SDP textarea's onInput: setRemoteSDP(e.target.value).
TypeRemoteSDP(p, t) ==
    /\ mounted[p]
    /\ nEvents < MaxEvents
    /\ nEvents' = nEvents + 1
    /\ remoteSDP[p] # t
    /\ remoteSDP' = [remoteSDP EXCEPT ![p] = t]
    /\ logged' = Quiet
    /\ UNCHANGED <<pcVars, chanVars, net, connectionStatus, mounted, showChatWindow, chatSent, chatMessages, localSDP,
                   callVars, mediaVars, tasks, nOffers, nApply>>

\* applyRemoteSDP (behind the button's `if (remoteSDP())`) up to its first
\* await; an offer goes to createAnswerFromRemote, anything else that parses
\* is handed to setRemoteDescription after pc is created if missing.
ApplyRemoteSDP(p) ==
    /\ mounted[p]
    /\ remoteSDP[p] # EmptyText
    /\ ~ManualBusy(p)
    /\ IF pcConn[p] = "connected"
       THEN nEvents < MaxEvents /\ nEvents' = nEvents + 1 /\ nApply' = nApply
       ELSE nApply < MaxApply /\ nApply' = nApply + 1 /\ nEvents' = nEvents
    /\ IF ~Parses(remoteSDP[p])
       THEN UNCHANGED <<pcConn, tasks>>
       ELSE /\ pcConn' = [pcConn EXCEPT ![p] = CreatePeerConnectionWithStatus(p)]
            /\ tasks' = Spawn(p, Task(IF Parse(remoteSDP[p]).type = "offer"
                                        THEN "createAnswerFromRemote"
                                        ELSE "applyRemoteSDP",
                                      "srd", Parse(remoteSDP[p])))
    /\ logged' = IF Parses(remoteSDP[p]) THEN Quiet ELSE Log(p, "Invalid remote SDP")
    /\ UNCHANGED <<pcSig, pcLocal, pcRemote, pcCur, iceGathering, chanVars, net,
                   connectionStatus, mounted, showChatWindow, chatSent, chatMessages, sdpVars, callVars, mediaVars, nOffers>>

\* applyRemoteSDP as it would be if the answer were never handed to
\* setRemoteDescription.
ApplyRemoteSDPDropsAnswer(p) ==
    \E t \in Pending(p) :
        /\ t.fn = "applyRemoteSDP" /\ t.at = "srd"
        /\ tasks' = Retire(p, t)
        /\ logged' = Quiet
        /\ UNCHANGED <<pcVars, chanVars, net, connectionStatus, mounted, showChatWindow, chatSent, chatMessages, sdpVars, callVars,
                       mediaVars, ctrVars>>

\* applyRemoteSDP: setRemoteDescription(answer) settles.  On success a call
\* in progress is marked active; a rejection is caught and logged.
ApplyRemoteSDPResolve(p) ==
    \E t \in Pending(p) :
        /\ t.fn = "applyRemoteSDP" /\ t.at = "srd"
        /\ IF CanSetRemoteAnswer(p, t.sdp)
           THEN /\ pcRemote' = [pcRemote EXCEPT ![p] = t.sdp]
                /\ pcSig' = [pcSig EXCEPT ![p] = "stable"]
                /\ pcCur' = [pcCur EXCEPT ![p] = [local |-> pcLocal[p], remote |-> t.sdp]]
                /\ remoteStream' = [remoteStream EXCEPT ![p] = @ \/ t.sdp.media]
                /\ callStatus' = [callStatus EXCEPT ![p] = IF isInCall[p] THEN "active" ELSE @]
           ELSE UNCHANGED <<pcRemote, pcSig, pcCur, remoteStream, callStatus>>
        /\ tasks' = Retire(p, t)
        /\ logged' = IF CanSetRemoteAnswer(p, t.sdp) THEN Quiet ELSE Log(p, "Invalid remote SDP")
        /\ UNCHANGED <<pcConn, pcLocal, iceGathering, chanVars, net, connectionStatus, mounted, showChatWindow, chatSent, chatMessages,
                       sdpVars, isInCall, incomingCall, localStream, muteVars, live,
                       trackOff, nStreams, senders, ctrVars>>

\* createAnswerFromRemote: setRemoteDescription(offer) resolves (a pending
\* local offer is rolled back), pc.ontrack fires for an offer with media.  On
\* a closed pc it rejects, which applyRemoteSDP's catch logs.
CreateAnswerSetRemote(p) ==
    \E t \in Pending(p) :
        /\ t.fn = "createAnswerFromRemote" /\ t.at = "srd"
        /\ IF pcSig[p] # "closed"
           THEN /\ pcRemote' = [pcRemote EXCEPT ![p] = t.sdp]
                /\ pcLocal' = [pcLocal EXCEPT ![p] = pcCur[p].local]
                /\ pcSig' = [pcSig EXCEPT ![p] = "have-remote-offer"]
                /\ remoteStream' = [remoteStream EXCEPT ![p] = @ \/ t.sdp.media]
                /\ tasks' = Move(p, t, Task("createAnswerFromRemote", "answer", NoDesc))
           ELSE /\ tasks' = Retire(p, t)
                /\ UNCHANGED <<pcRemote, pcLocal, pcSig, remoteStream>>
        /\ logged' = IF pcSig[p] # "closed" THEN Quiet ELSE Log(p, "Invalid remote SDP")
        /\ UNCHANGED <<pcConn, pcCur, iceGathering, chanVars, net, connectionStatus, mounted, showChatWindow, chatSent, chatMessages,
                       sdpVars, callVars, localStream, muteVars, live, trackOff, nStreams,
                       senders, ctrVars>>

\* createAnswerFromRemote: createAnswer() and setLocalDescription(answer)
\* resolve; a rejection leaves the function (the caller's catch logs it).
CreateAnswerSetLocal(p) ==
    LET t == Task("createAnswerFromRemote", "answer", NoDesc) IN
    /\ t \in Pending(p)
    /\ IF CanSetLocalAnswer(p)
       THEN /\ pcLocal' = [pcLocal EXCEPT ![p] = Desc("answer", p, senders[p] # {})]
            /\ pcSig' = [pcSig EXCEPT ![p] = "stable"]
            /\ pcCur' = [pcCur EXCEPT ![p] =
                            [local |-> Desc("answer", p, senders[p] # {}), remote |-> pcRemote[p]]]
            /\ iceGathering' = [iceGathering EXCEPT ![p] = IF @ = "new" THEN "gathering" ELSE @]
            /\ tasks' = Move(p, t, Task("createAnswerFromRemote", "ice", NoDesc))
       ELSE /\ tasks' = Retire(p, t)
            /\ UNCHANGED <<pcLocal, pcSig, pcCur, iceGathering>>
    /\ logged' = IF CanSetLocalAnswer(p) THEN Quiet ELSE Log(p, "Invalid remote SDP")
    /\ UNCHANGED <<pcConn, pcRemote, chanVars, net, connectionStatus, mounted, showChatWindow, chatSent, chatMessages, sdpVars,
                   callVars, mediaVars, ctrVars>>

\* ------------------------------------------------------------- endCall

\* endCall as it would be without stopping the tracks of the local stream.
EndCallKeepsTracks(n, p) ==
    /\ net' = IF isInCall[p] THEN SendCallMessage(n, p, Frame("call-end", NoDesc)) ELSE n
    /\ UNCHANGED <<live, trackOff>>
    /\ localStream' = [localStream EXCEPT ![p] = 0]
    /\ remoteStream' = [remoteStream EXCEPT ![p] = FALSE]
    /\ isInCall' = [isInCall EXCEPT ![p] = FALSE]
    /\ callStatus' = [callStatus EXCEPT ![p] = "idle"]
    /\ incomingCall' = [incomingCall EXCEPT ![p] = FALSE]
    /\ isAudioMuted' = [isAudioMuted EXCEPT ![p] = FALSE]
    /\ isVideoMuted' = [isVideoMuted EXCEPT ![p] = FALSE]
    /\ senders' = [senders EXCEPT ![p] = IF pcConn[p] # "none" THEN {} ELSE @]

\* endCall as it would be without its `if (isInCall())` test before the send.
EndCallAlwaysSends(n, p) ==
    /\ net' = SendCallMessage(n, p, Frame("call-end", NoDesc))
    /\ live' = [live EXCEPT ![p] = @ \ {localStream[p]}]
    /\ trackOff' = [trackOff EXCEPT ![p] = {x \in @ : x[1] # localStream[p]}]
    /\ localStream' = [localStream EXCEPT ![p] = 0]
    /\ remoteStream' = [remoteStream EXCEPT ![p] = FALSE]
    /\ isInCall' = [isInCall EXCEPT ![p] = FALSE]
    /\ callStatus' = [callStatus EXCEPT ![p] = "idle"]
    /\ incomingCall' = [incomingCall EXCEPT ![p] = FALSE]
    /\ isAudioMuted' = [isAudioMuted EXCEPT ![p] = FALSE]
    /\ isVideoMuted' = [isVideoMuted EXCEPT ![p] = FALSE]
    /\ senders' = [senders EXCEPT ![p] = IF pcConn[p] # "none" THEN {} ELSE @]

\* endCall has no await: it runs to completion in one step.  n is the
\* frames in flight when it starts.
EndCallFrom(n, p) ==
    /\ net' = IF isInCall[p] THEN SendCallMessage(n, p, Frame("call-end", NoDesc)) ELSE n
    /\ live' = [live EXCEPT ![p] = @ \ {localStream[p]}]
    /\ trackOff' = [trackOff EXCEPT ![p] = {x \in @ : x[1] # localStream[p]}]
    /\ localStream' = [localStream EXCEPT ![p] = 0]
    /\ remoteStream' = [remoteStream EXCEPT ![p] = FALSE]
    /\ isInCall' = [isInCall EXCEPT ![p] = FALSE]
    /\ callStatus' = [callStatus EXCEPT ![p] = "idle"]
    /\ incomingCall' = [incomingCall EXCEPT ![p] = FALSE]
    /\ isAudioMuted' = [isAudioMuted EXCEPT ![p] = FALSE]
    /\ isVideoMuted' = [isVideoMuted EXCEPT ![p] = FALSE]
    /\ senders' = [senders EXCEPT ![p] = IF pcConn[p] # "none" THEN {} ELSE @]

\* The end-call buttons exist only while isInCall.
EndCall(p) ==
    /\ mounted[p]
    /\ isInCall[p]
    /\ EndCallFrom(net, p)
    /\ logged' = SendLog(p)
    /\ UNCHANGED <<pcVars, chanVars, connectionStatus, mounted, showChatWindow, chatSent, chatMessages, sdpVars, nStreams, tasks, ctrVars>>

\* ------------------------------------------------- transport (platform)

\* ICE starts once both descriptions are set; the handler only logs.
TransportConnecting(p) ==
    /\ pcConn[p] = "new"
    /\ pcLocal[p] # NoDesc /\ pcRemote[p] # NoDesc
    /\ pcConn' = [pcConn EXCEPT ![p] = "connecting"]
    /\ logged' = Quiet
    /\ UNCHANGED <<pcSig, pcLocal, pcRemote, pcCur, iceGathering, chanVars, net,
                   connectionStatus, mounted, showChatWindow, chatSent, chatMessages, sdpVars, callVars, mediaVars, tasks, ctrVars>>

\* The connected branch as it would be without its setRemoteSDP('').
OnConnectedKeepsRemoteSDP(p) ==
    /\ \/ pcConn[p] = "connecting" /\ Negotiated
          /\ pcConn[Other(p)] \in {"connecting", "connected"}
       \/ pcConn[p] = "disconnected"
    /\ pcConn' = [pcConn EXCEPT ![p] = "connected"]
    /\ connectionStatus' = [connectionStatus EXCEPT ![p] = "connected"]
    /\ showChatWindow' = [showChatWindow EXCEPT ![p] = TRUE]
    /\ localSDP' = [localSDP EXCEPT ![p] = EmptyText]
    /\ logged' = Quiet
    /\ UNCHANGED <<pcSig, pcLocal, pcRemote, pcCur, iceGathering, chanVars, net, remoteSDP,
                   mounted, chatSent, chatMessages, callVars, mediaVars, tasks, ctrVars>>

\* pc.onconnectionstatechange with state connected, at first connection or
\* when a disconnected transport recovers.
OnConnected(p) ==
    /\ \/ pcConn[p] = "connecting" /\ Negotiated
          /\ pcConn[Other(p)] \in {"connecting", "connected"}
       \/ pcConn[p] = "disconnected"
    /\ pcConn' = [pcConn EXCEPT ![p] = "connected"]
    /\ connectionStatus' = [connectionStatus EXCEPT ![p] = "connected"]
    /\ showChatWindow' = [showChatWindow EXCEPT ![p] = TRUE]
    /\ localSDP' = [localSDP EXCEPT ![p] = EmptyText]
    /\ remoteSDP' = [remoteSDP EXCEPT ![p] = EmptyText]
    /\ logged' = Quiet
    /\ UNCHANGED <<pcSig, pcLocal, pcRemote, pcCur, iceGathering, chanVars, net,
                   mounted, chatSent, chatMessages, callVars, mediaVars, tasks, ctrVars>>

\* pc.onconnectionstatechange with state disconnected or failed.
OnConnectionLost(p, state) ==
    /\ pcConn' = [pcConn EXCEPT ![p] = state]
    /\ connectionStatus' = [connectionStatus EXCEPT ![p] = "disconnected"]
    /\ IF isInCall[p]
       THEN EndCallFrom(net, p)
       ELSE UNCHANGED <<net, live, trackOff, localStream, remoteStream, isInCall, callStatus,
                        incomingCall, isAudioMuted, isVideoMuted, senders>>
    /\ UNCHANGED <<pcSig, pcLocal, pcRemote, pcCur, iceGathering, chanVars, sdpVars,
                   mounted, showChatWindow, chatSent, chatMessages, nStreams, tasks, nOffers, nApply>>

OnDisconnected(p) ==
    /\ pcConn[p] = "connected"
    /\ nEvents < MaxEvents
    /\ nEvents' = nEvents + 1
    /\ logged' = IF isInCall[p] THEN SendLog(p) ELSE Quiet
    /\ OnConnectionLost(p, "disconnected")

\* A degraded transport gives up; a transport that never connects fails too.
OnFailed(p) ==
    /\ \/ pcConn[p] = "disconnected" /\ nEvents' = nEvents
       \/ pcConn[p] = "connecting" /\ nEvents < MaxEvents /\ nEvents' = nEvents + 1
    /\ logged' = IF isInCall[p] THEN SendLog(p) ELSE Quiet
    /\ OnConnectionLost(p, "failed")

\* ----------------------------------------------- data channel (platform)

\* The creating end opens once the transport is up (onopen only logs).
OnDataChannelOpen(c, p) ==
    /\ dcEnd[c][p] = "connecting"
    /\ pcConn[p] = "connected"
    /\ dcEnd' = [dcEnd EXCEPT ![c][p] = "open"]
    /\ logged' = Quiet
    /\ UNCHANGED <<pcVars, dataChannel, net, connectionStatus, mounted, showChatWindow, chatSent, chatMessages, sdpVars, callVars,
                   mediaVars, tasks, ctrVars>>

\* pc.ondatachannel: the answering end is handed the channel, already open.
OnDataChannel(c, p) ==
    /\ dcEnd[c][p] = "none"
    /\ dcEnd[c][Other(p)] \in {"connecting", "open"}
    /\ pcConn[p] = "connected"
    /\ dataChannel' = [dataChannel EXCEPT ![p] = c]
    /\ dcEnd' = [dcEnd EXCEPT ![c][p] = "open"]
    /\ logged' = Quiet
    /\ UNCHANGED <<pcVars, net, connectionStatus, mounted, showChatWindow, chatSent, chatMessages, sdpVars, callVars, mediaVars,
                   tasks, ctrVars>>

\* A channel end closes after its transport failed, or after the other end
\* closed (onclose only logs).
OnDataChannelClose(c, p) ==
    /\ dcEnd[c][p] \in {"connecting", "open"}
    /\ pcConn[p] = "failed" \/ dcEnd[c][Other(p)] = "closed"
    /\ dcEnd' = [dcEnd EXCEPT ![c][p] = "closed"]
    /\ logged' = Quiet
    /\ UNCHANGED <<pcVars, dataChannel, net, connectionStatus, mounted, showChatWindow, chatSent, chatMessages, sdpVars, callVars,
                   mediaVars, tasks, ctrVars>>

\* ------------------------------------------------------ call signalling

\* startCall's guards as they would be without the callStatus test.
StartCallIgnoresStatus(p) == connectionStatus[p] = "connected" /\ ~isInCall[p]

\* startCall's two guards.
StartCallAllowed(p) ==
    connectionStatus[p] = "connected" /\ ~isInCall[p] /\ callStatus[p] = "idle"

\* startCall; outside its guards it only logs.
StartCall(p) ==
    /\ mounted[p]
    /\ IF StartCallAllowed(p)
       THEN /\ nEvents < MaxEvents
            /\ nEvents' = nEvents + 1
            /\ callStatus' = [callStatus EXCEPT ![p] = "calling"]
            /\ net' = SendCallMessage(net, p, Frame("call-request", NoDesc))
       ELSE UNCHANGED <<nEvents, callStatus, net>>
    /\ logged' = IF StartCallAllowed(p) THEN SendLog(p)
                 ELSE IF connectionStatus[p] # "connected"
                 THEN Log(p, "Cannot start call - no active connection")
                 ELSE Log(p, "Call already in progress or not ready")
    /\ UNCHANGED <<pcVars, chanVars, connectionStatus, mounted, showChatWindow, chatSent, chatMessages, sdpVars, isInCall, incomingCall,
                   mediaVars, tasks, nOffers, nApply>>

\* The incoming-call modal exists only while incomingCall is non-null.
Accept(p) ==
    /\ mounted[p]
    /\ incomingCall[p]
    /\ incomingCall' = [incomingCall EXCEPT ![p] = FALSE]
    /\ net' = SendCallMessage(net, p, Frame("call-accept", NoDesc))
    /\ logged' = SendLog(p)
    /\ UNCHANGED <<pcVars, chanVars, connectionStatus, mounted, showChatWindow, chatSent, chatMessages, sdpVars, callStatus, isInCall,
                   mediaVars, tasks, ctrVars>>

Decline(p) ==
    /\ mounted[p]
    /\ incomingCall[p]
    /\ incomingCall' = [incomingCall EXCEPT ![p] = FALSE]
    /\ net' = SendCallMessage(net, p, Frame("call-decline", NoDesc))
    /\ logged' = SendLog(p)
    /\ UNCHANGED <<pcVars, chanVars, connectionStatus, mounted, showChatWindow, chatSent, chatMessages, sdpVars, callStatus, isInCall,
                   mediaVars, tasks, ctrVars>>

\* dataChannel.onmessage at p for the oldest frame the peer sent on c.
Arrives(c, p, type) ==
    /\ dcEnd[c][p] = "open"
    /\ net[c][Other(p)] # <<>>
    /\ Head(net[c][Other(p)]).type = type
Payload(c, p) == Head(net[c][Other(p)]).sdp
Taken(c, p) == [net EXCEPT ![c][Other(p)] = Tail(@)]

\* onDataMessage, case call-request: handleIncomingCall.
HandleIncomingCall(c, p) ==
    /\ Arrives(c, p, "call-request")
    /\ net' = Taken(c, p)
    /\ incomingCall' = [incomingCall EXCEPT ![p] = TRUE]
    /\ callStatus' = [callStatus EXCEPT ![p] = "ringing"]
    /\ logged' = Quiet
    /\ UNCHANGED <<pcVars, chanVars, connectionStatus, mounted, showChatWindow, chatSent, chatMessages, sdpVars, isInCall, mediaVars,
                   tasks, ctrVars>>

\* handleCallAccept as it would be without its callStatus test.
HandleCallAcceptWithoutTest(c, p) ==
    /\ Arrives(c, p, "call-accept")
    /\ net' = Taken(c, p)
    /\ callStatus' = [callStatus EXCEPT ![p] = "connecting"]
    /\ tasks' = Spawn(p, Task("startMediaAndSendOffer", "gum", NoDesc))
    /\ logged' = Quiet
    /\ UNCHANGED <<pcVars, chanVars, connectionStatus, mounted, showChatWindow, chatSent, chatMessages, sdpVars, isInCall, incomingCall,
                   mediaVars, ctrVars>>

\* onDataMessage, case call-accept: handleCallAccept, and startMediaAndSendOffer
\* up to its first await (getUserMedia).
HandleCallAccept(c, p) ==
    /\ Arrives(c, p, "call-accept")
    /\ net' = Taken(c, p)
    /\ IF callStatus[p] = "calling"
       THEN /\ callStatus' = [callStatus EXCEPT ![p] = "connecting"]
            /\ tasks' = Spawn(p, Task("startMediaAndSendOffer", "gum", NoDesc))
       ELSE UNCHANGED <<callStatus, tasks>>
    /\ logged' = Quiet
    /\ UNCHANGED <<pcVars, chanVars, connectionStatus, mounted, showChatWindow, chatSent, chatMessages, sdpVars, isInCall, incomingCall,
                   mediaVars, ctrVars>>

\* handleCallDecline as it would be without its setCallStatus('idle').
HandleCallDeclineKeepsStatus(c, p) ==
    /\ Arrives(c, p, "call-decline")
    /\ net' = Taken(c, p)
    /\ isInCall' = [isInCall EXCEPT ![p] = FALSE]
    /\ logged' = Quiet
    /\ UNCHANGED <<pcVars, chanVars, connectionStatus, mounted, showChatWindow, chatSent, chatMessages, sdpVars, callStatus, incomingCall,
                   mediaVars, tasks, ctrVars>>

\* onDataMessage, case call-decline: handleCallDecline.
HandleCallDecline(c, p) ==
    /\ Arrives(c, p, "call-decline")
    /\ net' = Taken(c, p)
    /\ callStatus' = [callStatus EXCEPT ![p] = "idle"]
    /\ isInCall' = [isInCall EXCEPT ![p] = FALSE]
    /\ logged' = Quiet
    /\ UNCHANGED <<pcVars, chanVars, connectionStatus, mounted, showChatWindow, chatSent, chatMessages, sdpVars, incomingCall, mediaVars,
                   tasks, ctrVars>>

\* onDataMessage, case call-offer: handleCallOffer up to getUserMedia.
HandleCallOffer(c, p) ==
    /\ Arrives(c, p, "call-offer")
    /\ net' = Taken(c, p)
    /\ tasks' = Spawn(p, Task("handleCallOffer", "gum", Payload(c, p)))
    /\ logged' = Quiet
    /\ UNCHANGED <<pcVars, chanVars, connectionStatus, mounted, showChatWindow, chatSent, chatMessages, sdpVars, callVars, mediaVars, ctrVars>>

\* onDataMessage, case call-answer: handleCallAnswer up to setRemoteDescription.
HandleCallAnswer(c, p) ==
    /\ Arrives(c, p, "call-answer")
    /\ net' = Taken(c, p)
    /\ tasks' = IF pcConn[p] = "none" THEN tasks
                ELSE Spawn(p, Task("handleCallAnswer", "srd", Payload(c, p)))
    /\ logged' = IF pcConn[p] = "none" THEN Log(p, "No peer connection for call answer") ELSE Quiet
    /\ UNCHANGED <<pcVars, chanVars, connectionStatus, mounted, showChatWindow, chatSent, chatMessages, sdpVars, callVars, mediaVars, ctrVars>>

\* onDataMessage, case call-end: handleCallEnd calls endCall.
HandleCallEnd(c, p) ==
    /\ Arrives(c, p, "call-end")
    /\ EndCallFrom(Taken(c, p), p)
    /\ logged' = IF isInCall[p] THEN SendLog(p) ELSE Quiet
    /\ UNCHANGED <<pcVars, chanVars, connectionStatus, mounted, showChatWindow, chatSent, chatMessages, sdpVars, nStreams, tasks, ctrVars>>

\* --------------------------------------------- resumptions after an await

\* requestMediaPermissions on success: a fresh capture becomes localStream.
Granted(p) ==
    /\ nStreams' = [nStreams EXCEPT ![p] = @ + 1]
    /\ live' = [live EXCEPT ![p] = @ \cup {nStreams[p] + 1}]
    /\ localStream' = [localStream EXCEPT ![p] = nStreams[p] + 1]

\* startMediaAndSendOffer resumes after requestMediaPermissions.
StartMediaResume(p, granted) ==
    LET t == Task("startMediaAndSendOffer", "gum", NoDesc) IN
    /\ t \in Pending(p)
    /\ IF ~granted
       THEN /\ net' = SendCallMessage(net, p, Frame("call-decline", NoDesc))
            /\ tasks' = Retire(p, t)
            /\ UNCHANGED <<nStreams, live, localStream, senders, isInCall, callStatus>>
       ELSE /\ Granted(p)
            /\ net' = net
            /\ IF pcConn[p] = "connected"
               THEN /\ senders' = [senders EXCEPT ![p] = @ \cup {nStreams[p] + 1}]
                    /\ isInCall' = [isInCall EXCEPT ![p] = TRUE]
                    /\ tasks' = Move(p, t, Task("startMediaAndSendOffer", "offer", NoDesc))
                    /\ UNCHANGED callStatus
               ELSE /\ callStatus' = [callStatus EXCEPT ![p] = "idle"]
                    /\ tasks' = Retire(p, t)
                    /\ UNCHANGED <<senders, isInCall>>
    /\ logged' = IF ~granted THEN (IF SendFails(p) THEN SendLog(p) ELSE Log(p, "Media permissions denied"))
                 ELSE IF pcConn[p] = "connected" THEN Quiet
                 ELSE Log(p, "No active connection for call")
    /\ UNCHANGED <<pcVars, chanVars, connectionStatus, mounted, showChatWindow, chatSent, chatMessages, sdpVars, incomingCall, remoteStream,
                   muteVars, trackOff, ctrVars>>

\* startMediaAndSendOffer resumes after the 100 ms timer, pc.createOffer()
\* and setLocalDescription(offer) (no code of the handler runs between these
\* three awaits); a rejection lands in its catch.
StartMediaSendOffer(p) ==
    LET t == Task("startMediaAndSendOffer", "offer", NoDesc)
        offer == Desc("offer", p, senders[p] # {}) IN
    /\ t \in Pending(p)
    /\ IF CanSetLocalOffer(p)
       THEN /\ pcLocal' = [pcLocal EXCEPT ![p] = offer]
            /\ pcSig' = [pcSig EXCEPT ![p] = "have-local-offer"]
            /\ net' = SendCallMessage(net, p, Frame("call-offer", offer))
            /\ UNCHANGED callStatus
       ELSE /\ callStatus' = [callStatus EXCEPT ![p] = "idle"]
            /\ UNCHANGED <<pcLocal, pcSig, net>>
    /\ tasks' = Retire(p, t)
    /\ logged' = IF CanSetLocalOffer(p) THEN SendLog(p) ELSE Log(p, "Failed to start media")
    /\ UNCHANGED <<pcConn, pcRemote, pcCur, iceGathering, chanVars, connectionStatus, mounted, showChatWindow, chatSent, chatMessages, sdpVars,
                   isInCall, incomingCall, mediaVars, ctrVars>>

\* handleCallOffer resumes after requestMediaPermissions.  On a closed pc
\* addTrack throws into the catch, which sends call-decline.
HandleCallOfferMedia(p, granted) ==
    \E t \in Pending(p) :
        /\ t.fn = "handleCallOffer" /\ t.at = "gum"
        /\ IF ~granted
           THEN /\ net' = SendCallMessage(net, p, Frame("call-decline", NoDesc))
                /\ tasks' = Retire(p, t)
                /\ UNCHANGED <<nStreams, live, localStream, senders>>
           ELSE /\ Granted(p)
                /\ IF pcConn[p] # "closed"
                   THEN /\ senders' = [senders EXCEPT ![p] = @ \cup {nStreams[p] + 1}]
                        /\ net' = net
                        /\ tasks' = Move(p, t, Task("handleCallOffer", "srd", t.sdp))
                   ELSE /\ net' = SendCallMessage(net, p, Frame("call-decline", NoDesc))
                        /\ tasks' = Retire(p, t)
                        /\ UNCHANGED senders
        /\ logged' = IF granted /\ pcConn[p] # "closed" THEN Quiet
                     ELSE IF SendFails(p) THEN SendLog(p)
                     ELSE IF granted THEN Log(p, "Failed to handle call offer")
                     ELSE Log(p, "Media permissions denied")
        /\ UNCHANGED <<pcVars, chanVars, connectionStatus, mounted, showChatWindow, chatSent, chatMessages, sdpVars, callVars, remoteStream,
                       muteVars, trackOff, ctrVars>>

\* handleCallOffer resumes after setRemoteDescription(offer): a pending local
\* offer is rolled back, pc.ontrack fires for an offer that carries media.  On
\* a closed pc it rejects into the catch, which sends call-decline.
HandleCallOfferSetRemote(p) ==
    \E t \in Pending(p) :
        /\ t.fn = "handleCallOffer" /\ t.at = "srd"
        /\ IF pcSig[p] # "closed"
           THEN /\ pcRemote' = [pcRemote EXCEPT ![p] = t.sdp]
                /\ pcLocal' = [pcLocal EXCEPT ![p] = pcCur[p].local]
                /\ pcSig' = [pcSig EXCEPT ![p] = "have-remote-offer"]
                /\ remoteStream' = [remoteStream EXCEPT ![p] = @ \/ t.sdp.media]
                /\ net' = net
                /\ tasks' = Move(p, t, Task("handleCallOffer", "answer", NoDesc))
           ELSE /\ net' = SendCallMessage(net, p, Frame("call-decline", NoDesc))
                /\ tasks' = Retire(p, t)
                /\ UNCHANGED <<pcRemote, pcLocal, pcSig, remoteStream>>
        /\ logged' = IF pcSig[p] # "closed" THEN Quiet
                     ELSE IF SendFails(p) THEN SendLog(p)
                     ELSE Log(p, "Failed to handle call offer")
        /\ UNCHANGED <<pcConn, pcCur, iceGathering, chanVars, connectionStatus, mounted, showChatWindow, chatSent, chatMessages, sdpVars,
                       callVars, localStream, muteVars, live, trackOff, nStreams, senders,
                       ctrVars>>

\* handleCallOffer resumes after createAnswer() and setLocalDescription(answer);
\* a rejection lands in its catch, which sends call-decline.
HandleCallOfferAnswer(p) ==
    LET t == Task("handleCallOffer", "answer", NoDesc)
        answer == Desc("answer", p, senders[p] # {}) IN
    /\ t \in Pending(p)
    /\ IF CanSetLocalAnswer(p)
       THEN /\ pcLocal' = [pcLocal EXCEPT ![p] = answer]
            /\ pcSig' = [pcSig EXCEPT ![p] = "stable"]
            /\ pcCur' = [pcCur EXCEPT ![p] = [local |-> answer, remote |-> pcRemote[p]]]
            /\ net' = SendCallMessage(net, p, Frame("call-answer", answer))
            /\ isInCall' = [isInCall EXCEPT ![p] = TRUE]
            /\ callStatus' = [callStatus EXCEPT ![p] = "active"]
       ELSE /\ net' = SendCallMessage(net, p, Frame("call-decline", NoDesc))
            /\ UNCHANGED <<pcLocal, pcSig, pcCur, isInCall, callStatus>>
    /\ tasks' = Retire(p, t)
    /\ logged' = IF SendFails(p) THEN SendLog(p) ELSE IF CanSetLocalAnswer(p) THEN Quiet ELSE Log(p, "Failed to handle call offer")
    /\ UNCHANGED <<pcConn, pcRemote, iceGathering, chanVars, connectionStatus, mounted, showChatWindow, chatSent, chatMessages, sdpVars,
                   incomingCall, mediaVars, ctrVars>>

\* handleCallAnswer as it would be without its setCallStatus('active').
HandleCallAnswerKeepsStatus(p) ==
    \E t \in Pending(p) :
        /\ t.fn = "handleCallAnswer" /\ t.at = "srd"
        /\ IF CanSetRemoteAnswer(p, t.sdp)
           THEN /\ pcRemote' = [pcRemote EXCEPT ![p] = t.sdp]
                /\ pcSig' = [pcSig EXCEPT ![p] = "stable"]
                /\ pcCur' = [pcCur EXCEPT ![p] = [local |-> pcLocal[p], remote |-> t.sdp]]
                /\ remoteStream' = [remoteStream EXCEPT ![p] = @ \/ t.sdp.media]
           ELSE UNCHANGED <<pcRemote, pcSig, pcCur, remoteStream>>
        /\ tasks' = Retire(p, t)
        /\ logged' = IF CanSetRemoteAnswer(p, t.sdp) THEN Quiet ELSE Log(p, "Failed to handle call answer")
        /\ UNCHANGED <<pcConn, pcLocal, iceGathering, chanVars, net, connectionStatus, mounted, showChatWindow, chatSent, chatMessages, sdpVars,
                       callVars, localStream, muteVars, live, trackOff,
                       nStreams, senders, ctrVars>>

\* handleCallAnswer resumes after setRemoteDescription(answer); a rejection
\* lands in its catch, which only logs.
HandleCallAnswerResume(p) ==
    \E t \in Pending(p) :
        /\ t.fn = "handleCallAnswer" /\ t.at = "srd"
        /\ IF CanSetRemoteAnswer(p, t.sdp)
           THEN /\ pcRemote' = [pcRemote EXCEPT ![p] = t.sdp]
                /\ pcSig' = [pcSig EXCEPT ![p] = "stable"]
                /\ pcCur' = [pcCur EXCEPT ![p] = [local |-> pcLocal[p], remote |-> t.sdp]]
                /\ remoteStream' = [remoteStream EXCEPT ![p] = @ \/ t.sdp.media]
                /\ callStatus' = [callStatus EXCEPT ![p] = "active"]
           ELSE UNCHANGED <<pcRemote, pcSig, pcCur, remoteStream, callStatus>>
        /\ tasks' = Retire(p, t)
        /\ logged' = IF CanSetRemoteAnswer(p, t.sdp) THEN Quiet ELSE Log(p, "Failed to handle call answer")
        /\ UNCHANGED <<pcConn, pcLocal, iceGathering, chanVars, net, connectionStatus, mounted, showChatWindow, chatSent, chatMessages, sdpVars,
                       isInCall, incomingCall, localStream, muteVars, live, trackOff,
                       nStreams, senders, ctrVars>>

\* --------------------------------------------------------------- chat

\* sendMessage and sendChatMessage: the trimmed text goes to the local chat
\* list at once and, when the channel is open, to the peer as a chat envelope.
\* The input box exists while the chat window is rendered; Enter submits
\* whatever connectionStatus is.
SendMessage(p, m) ==
    /\ mounted[p]
    /\ showChatWindow[p]
    /\ nEvents < MaxEvents
    /\ nEvents' = nEvents + 1
    /\ chatMessages' = [chatMessages EXCEPT ![p] = Append(@, [text |-> m, isOwn |-> TRUE])]
    /\ net' = SendCallMessage(net, p, ChatFrame(m))
    /\ chatSent' = [chatSent EXCEPT ![p] = IF SendFails(p) THEN @ ELSE Append(@, m)]
    /\ logged' = IF SendFails(p) THEN Log(p, "Cannot send chat message - data channel not ready")
                 ELSE Quiet
    /\ UNCHANGED <<pcVars, chanVars, connectionStatus, mounted, showChatWindow, sdpVars, callVars, mediaVars, tasks,
                   nOffers, nApply>>

\* The end p of the channel runs a build of the app that sends the chat text
\* as it is, without an envelope.
SendRawText(p, x) ==
    /\ mounted[p]
    /\ nEvents < MaxEvents
    /\ nEvents' = nEvents + 1
    /\ ~SendFails(p)
    /\ net' = [net EXCEPT ![dataChannel[p]][p] = Append(@, RawFrame(x))]
    /\ chatSent' = [chatSent EXCEPT ![p] = Append(@, x)]
    /\ logged' = Quiet
    /\ UNCHANGED <<pcVars, chanVars, connectionStatus, mounted, showChatWindow, chatMessages, sdpVars, callVars,
                   mediaVars, tasks, nOffers, nApply>>

\* onDataMessage for a frame that is not dispatched to a call handler: case
\* 'chat' and default append message.message, the catch of JSON.parse (or of
\* reading .type) appends the raw text.
OnChatMessage(c, p) ==
    /\ dcEnd[c][p] = "open"
    /\ net[c][Other(p)] # <<>>
    /\ LET f == Head(net[c][Other(p)]) IN
        /\ f.type \notin CallTypes
        /\ chatMessages' = [chatMessages EXCEPT ![p] =
               Append(@, [text |-> IF f.kind = "invalid" THEN f.raw ELSE f.message,
                          isOwn |-> FALSE])]
    /\ net' = Taken(c, p)
    /\ logged' = Quiet
    /\ UNCHANGED <<pcVars, chanVars, connectionStatus, mounted, showChatWindow, chatSent, sdpVars, callVars, mediaVars, tasks,
                   ctrVars>>

\* --------------------------------------------------------------- mute

\* The toggles as they would be without their `if (local)` test.
ToggleMuteWithoutTest(p, kind) ==
    /\ mounted[p]
    /\ nEvents < MaxEvents
    /\ nEvents' = nEvents + 1
    /\ trackOff' = [trackOff EXCEPT ![p] =
           IF localStream[p] = 0 THEN @
           ELSE IF <<localStream[p], kind>> \in @
           THEN @ \ {<<localStream[p], kind>>}
           ELSE @ \cup {<<localStream[p], kind>>}]
    /\ isAudioMuted' = [isAudioMuted EXCEPT ![p] = IF kind = "audio" THEN ~@ ELSE @]
    /\ isVideoMuted' = [isVideoMuted EXCEPT ![p] = IF kind = "video" THEN ~@ ELSE @]
    /\ logged' = Quiet
    /\ UNCHANGED <<pcVars, chanVars, net, connectionStatus, mounted, showChatWindow, chatSent, chatMessages, sdpVars, callVars, localStream,
                   remoteStream, live, nStreams, senders, tasks, nOffers, nApply>>

\* toggleAudioMute / toggleVideoMute: a no-op without a local stream.
ToggleMute(p, kind) ==
    /\ mounted[p]
    /\ nEvents < MaxEvents
    /\ nEvents' = nEvents + 1
    /\ IF localStream[p] # 0
       THEN /\ trackOff' = [trackOff EXCEPT ![p] =
                   IF <<localStream[p], kind>> \in @
                   THEN @ \ {<<localStream[p], kind>>}
                   ELSE @ \cup {<<localStream[p], kind>>}]
            /\ isAudioMuted' = [isAudioMuted EXCEPT ![p] = IF kind = "audio" THEN ~@ ELSE @]
            /\ isVideoMuted' = [isVideoMuted EXCEPT ![p] = IF kind = "video" THEN ~@ ELSE @]
       ELSE UNCHANGED <<trackOff, isAudioMuted, isVideoMuted>>
    /\ logged' = Quiet
    /\ UNCHANGED <<pcVars, chanVars, net, connectionStatus, mounted, showChatWindow, chatSent, chatMessages, sdpVars, callVars, localStream,
                   remoteStream, live, nStreams, senders, tasks, nOffers, nApply>>

\* ------------------------------------------------------------ teardown

\* onCleanup, run when the component is disposed: `if (pc) pc.close()`.  A
\* closed pc fires no further events, its channels are closed, and every
\* operation on it rejects; handlers suspended at an await still resume.
Unmount(p) ==
    /\ mounted[p]
    /\ nEvents < MaxEvents
    /\ nEvents' = nEvents + 1
    /\ mounted' = [mounted EXCEPT ![p] = FALSE]
    /\ pcConn' = [pcConn EXCEPT ![p] = IF @ = "none" THEN @ ELSE "closed"]
    /\ pcSig' = [pcSig EXCEPT ![p] = IF pcConn[p] = "none" THEN @ ELSE "closed"]
    /\ dcEnd' = [c \in Channels |->
                    [dcEnd[c] EXCEPT ![p] = IF @ \in {"connecting", "open"} THEN "closed" ELSE @]]
    /\ logged' = Quiet
    /\ UNCHANGED <<pcLocal, pcRemote, pcCur, iceGathering, dataChannel, net, connectionStatus, showChatWindow,
                   chatSent, chatMessages, sdpVars, callVars, mediaVars, tasks, nOffers, nApply>>

\* ------------------------------------------------------------ the system

Next ==
    \/ \E p \in Peers : CreateOffer(p)
    \/ \E p \in Peers : CreateOfferSetLocal(p)
    \/ \E p \in Peers : IceGatheringComplete(p)
    \/ \E p \in Peers : PublishLocalSDP(p)
    \/ \E p \in Peers : PasteRemoteSDP(p)
    \/ \E p \in Peers : \E t \in TypedTexts(p) : TypeRemoteSDP(p, t)
    \/ \E p \in Peers : ApplyRemoteSDP(p)
    \/ \E p \in Peers : ApplyRemoteSDPResolve(p)
    \/ \E p \in Peers : CreateAnswerSetRemote(p)
    \/ \E p \in Peers : CreateAnswerSetLocal(p)
    \/ \E p \in Peers : TransportConnecting(p)
    \/ \E p \in Peers : OnConnected(p)
    \/ \E p \in Peers : OnDisconnected(p)
    \/ \E p \in Peers : OnFailed(p)
    \/ \E p \in Peers, c \in Channels : OnDataChannelOpen(c, p)
    \/ \E p \in Peers, c \in Channels : OnDataChannel(c, p)
    \/ \E p \in Peers, c \in Channels : OnDataChannelClose(c, p)
    \/ \E p \in Peers : StartCall(p)
    \/ \E p \in Peers : Accept(p)
    \/ \E p \in Peers : Decline(p)
    \/ \E p \in Peers : EndCall(p)
    \/ \E p \in Peers, c \in Channels : HandleIncomingCall(c, p)
    \/ \E p \in Peers, c \in Channels : HandleCallAccept(c, p)
    \/ \E p \in Peers, c \in Channels : HandleCallDecline(c, p)
    \/ \E p \in Peers, c \in Channels : HandleCallOffer(c, p)
    \/ \E p \in Peers, c \in Channels : HandleCallAnswer(c, p)
    \/ \E p \in Peers, c \in Channels : HandleCallEnd(c, p)
    \/ \E p \in Peers, g \in BOOLEAN : StartMediaResume(p, g)
    \/ \E p \in Peers : StartMediaSendOffer(p)
    \/ \E p \in Peers, g \in BOOLEAN : HandleCallOfferMedia(p, g)
    \/ \E p \in Peers : HandleCallOfferSetRemote(p)
    \/ \E p \in Peers : HandleCallOfferAnswer(p)
    \/ \E p \in Peers : HandleCallAnswerResume(p)
    \/ \E p \in Peers, k \in {"audio", "video"} : ToggleMute(p, k)
    \/ \E p \in Peers, m \in ChatTexts : SendMessage(p, m)
    \/ \E p \in Peers, x \in RawTexts : SendRawText(p, x)
    \/ \E p \in Peers, c \in Channels : OnChatMessage(c, p)
    \/ \E p \in Peers : Unmount(p)

Spec == Init /\ [][Next]_vars

\* --------------------------------------------------------------- fairness

\* The browser delivers every frame that reached an open channel end,
\* settles every promise a handler awaits, and drives the transport and the
\* channel through their set-up.  Nothing is assumed of the users, of media
\* permission, or of the network staying up.
Deliver(p) ==
    \E c \in Channels :
        \/ HandleIncomingCall(c, p) \/ HandleCallAccept(c, p) \/ HandleCallDecline(c, p)
        \/ HandleCallOffer(c, p) \/ HandleCallAnswer(c, p) \/ HandleCallEnd(c, p)
        \/ OnChatMessage(c, p)

Resume(p) ==
    \/ \E g \in BOOLEAN : StartMediaResume(p, g) \/ HandleCallOfferMedia(p, g)
    \/ StartMediaSendOffer(p) \/ HandleCallOfferSetRemote(p)
    \/ HandleCallOfferAnswer(p) \/ HandleCallAnswerResume(p)

Settle(p) ==
    \/ CreateOfferSetLocal(p) \/ PublishLocalSDP(p) \/ ApplyRemoteSDPResolve(p)
    \/ CreateAnswerSetRemote(p) \/ CreateAnswerSetLocal(p)

Platform(p) ==
    \/ IceGatheringComplete(p) \/ TransportConnecting(p) \/ OnConnected(p)
    \/ \E c \in Channels : OnDataChannelOpen(c, p) \/ OnDataChannel(c, p)

FairSpec ==
    /\ Spec
    /\ \A p \in Peers :
        /\ WF_vars(Deliver(p)) /\ WF_vars(Resume(p))
        /\ WF_vars(Settle(p)) /\ WF_vars(Platform(p))

\* ------------------------------------------------- muting during a call

\* toggleAudioMute / toggleVideoMute clicked while a capture is held, outside
\* the event budget: two clicks undo each other, so the toggles need none.
ToggleMuteHeld(p, kind) ==
    /\ mounted[p]
    /\ localStream[p] # 0
    /\ trackOff' = [trackOff EXCEPT ![p] =
           IF <<localStream[p], kind>> \in @
           THEN @ \ {<<localStream[p], kind>>}
           ELSE @ \cup {<<localStream[p], kind>>}]
    /\ isAudioMuted' = [isAudioMuted EXCEPT ![p] = IF kind = "audio" THEN ~@ ELSE @]
    /\ isVideoMuted' = [isVideoMuted EXCEPT ![p] = IF kind = "video" THEN ~@ ELSE @]
    /\ logged' = Quiet
    /\ UNCHANGED <<pcVars, chanVars, net, connectionStatus, mounted, showChatWindow, chatSent, chatMessages, sdpVars, callVars, localStream,
                   remoteStream, live, nStreams, senders, tasks, ctrVars>>

\* The system with the mute controls usable at any moment of a call.
MuteNext ==
    \/ Next
    \/ \E p \in Peers, k \in {"audio", "video"} : ToggleMuteHeld(p, k)

MuteSpec == Init /\ [][MuteNext]_vars

\* ------------------------------------------------------------ properties

BothActive == \A p \in Peers : callStatus[p] = "active"

\* Something the happy path excludes happened: a call was ended or declined,
\* media was denied (the resulting call-decline idles the other side), the
\* transport left connected, or a frame was dropped at a channel not open.
Disturbed ==
    \/ \E p \in Peers : callStatus[p] = "idle" \/ pcConn[p] # "connected"
    \/ logged.line = "Cannot send call message - data channel not ready"

\* a called b from a quiet connected session, b's user clicked Accept, and
\* the call-accept frame is on its way to a.
CallAccepted(a) ==
    LET b == Other(a) IN
    /\ callStatus[a] = "calling" /\ callStatus[b] = "ringing" /\ ~incomingCall[b]
    /\ \A p \in Peers : pcConn[p] = "connected" /\ ~isInCall[p] /\ tasks[p] = EmptyBag
    /\ \E c \in Channels :
        /\ \A p \in Peers : dataChannel[p] = c /\ dcEnd[c][p] = "open"
        /\ net[c][b] = <<Frame("call-accept", NoDesc)>>
        /\ net[c][a] = <<>>

\* C1: once the callee's user has accepted a call started on a connected
\* session with an open control channel, the call-offer/call-answer round
\* runs over the channel and both peers end up with callStatus active,
\* unless the call is ended or declined, media is denied, or the transport
\* or the channel fails.
C1_HappyPathReachesActive ==
    \A a \in Peers : CallAccepted(a) ~> (BothActive \/ Disturbed)

C1_Witness ==
    /\ BothActive /\ \A p \in Peers : isInCall[p] /\ localStream[p] # 0 /\ remoteStream[p]
    /\ pcCur["A"].local.type = "offer" /\ pcCur["A"].local.media

\* b declined a's call: the call-decline frame is on its way to a, who is
\* still calling.
DeclineInFlight(a) ==
    LET b == Other(a) IN
    /\ callStatus[a] = "calling" /\ callStatus[b] = "ringing" /\ ~incomingCall[b]
    /\ \E c \in Channels :
        /\ dcEnd[c][a] = "open"
        /\ \E i \in 1..Len(net[c][b]) : net[c][b][i].type = "call-decline"

\* C2: after a started a call, b received it and b's user declined, a's
\* callStatus returns to idle (as long as a's end of the channel stays open
\* to deliver the frame).
C2_DeclineReturnsCallerToIdle ==
    \A a \in Peers :
        DeclineInFlight(a) ~> (callStatus[a] = "idle" \/ \E c \in Channels : dcEnd[c][a] = "closed")

C2_Witness ==
    /\ callStatus["A"] = "idle" /\ callStatus["B"] = "ringing" /\ ~incomingCall["B"]
    /\ nEvents = 1 /\ \A c \in Channels : net[c]["B"] = <<>> /\ net[c]["A"] = <<>>
    /\ \A p \in Peers : pcConn[p] = "connected" /\ nStreams[p] = 0

\* a ran createOffer, b answered a's published offer, and a is applying b's
\* published answer.
AnswerBeingApplied(a) ==
    LET b == Other(a) IN
    /\ pcSig[a] = "have-local-offer" /\ pcLocal[a].type = "offer"
    /\ pcCur[b].remote = pcLocal[a] /\ pcCur[b].local.type = "answer"
    /\ Task("applyRemoteSDP", "srd", pcCur[b].local) \in Pending(a)

\* C3: the manual exchange (createOffer at a, applyRemoteSDP of the offer at
\* b, applyRemoteSDP of the answer at a) brings connectionStatus to
\* connected at both peers, unless the network fails the transport or a
\* page is torn down.
C3_ManualNegotiationConnects ==
    \A a \in Peers :
        AnswerBeingApplied(a) ~>
            ((\A p \in Peers : connectionStatus[p] = "connected")
             \/ \E p \in Peers : pcConn[p] \in {"failed", "closed"})

C3_Witness ==
    /\ \A p \in Peers : connectionStatus[p] = "connected" /\ pcConn[p] = "connected"
    /\ nApply = 2 /\ nEvents = 0
    /\ pcCur["A"].local.type = "offer" /\ pcCur["B"].local.type = "answer"

\* C4: startCall invoked while connectionStatus is not connected, callStatus
\* is not idle or isInCall is true changes nothing of the call: callStatus,
\* isInCall, the media state, the frames in flight and the suspended
\* handlers are as before.
C4_StartCallOutsideGuardsIsNoOp ==
    [][\A p \in Peers :
        (StartCall(p) /\ ~(connectionStatus[p] = "connected" /\ callStatus[p] = "idle" /\ ~isInCall[p]))
            => UNCHANGED <<callStatus, isInCall, incomingCall, mediaVars, net, tasks>>]_vars

C4_Witness ==
    \E p \in Peers :
        /\ logged = Log(p, "Call already in progress or not ready")
        /\ callStatus[p] = "active" /\ isInCall[p] /\ connectionStatus[p] = "connected"

\* Every way endCall is run: the end-call buttons, a received call-end, and
\* the transport handler while isInCall.
EndCallRuns(p) ==
    \/ EndCall(p)
    \/ \E c \in Channels : HandleCallEnd(c, p)
    \/ isInCall[p] /\ (OnDisconnected(p) \/ OnFailed(p))

\* C5: when endCall has run, from whatever state, callStatus is idle,
\* isInCall is false, localStream is null and the stream it held is stopped,
\* remoteStream and incomingCall are cleared, both mute flags are false and
\* no sender of pc carries a local track.
C5_EndCallResetsEverything ==
    [][\A p \in Peers :
        EndCallRuns(p) =>
            /\ callStatus'[p] = "idle" /\ ~isInCall'[p]
            /\ localStream'[p] = 0 /\ localStream[p] \notin live'[p]
            /\ ~remoteStream'[p] /\ ~incomingCall'[p]
            /\ ~isAudioMuted'[p] /\ ~isVideoMuted'[p]
            /\ \A x \in trackOff'[p] : x[1] # localStream[p]
            /\ senders'[p] = {}]_vars

C5_Witness ==
    \E p \in Peers, c \in Channels :
        /\ callStatus[p] = "idle" /\ ~isInCall[p] /\ localStream[p] = 0
        /\ nStreams[p] = 1 /\ live[p] = {} /\ senders[p] = {}
        /\ net[c][p] # <<>> /\ net[c][p][Len(net[c][p])].type = "call-end"
        /\ callStatus[Other(p)] = "active" /\ nEvents = 2

\* C6: a transport that reports disconnected or failed while callStatus is
\* connecting or active ends the call: callStatus becomes idle and the local
\* capture is stopped and released.
C6_TransportLossEndsCall ==
    [][\A p \in Peers :
        ((OnDisconnected(p) \/ OnFailed(p)) /\ callStatus[p] \in {"connecting", "active"})
            => /\ callStatus'[p] = "idle"
               /\ localStream'[p] = 0 /\ localStream[p] \notin live'[p]]_vars

\* The transport is down and the caller is left connecting with nothing
\* pending that would ever change it.
C6_StuckConnecting ==
    \E p \in Peers :
        /\ pcConn[p] = "failed" /\ callStatus[p] = "connecting"
        /\ tasks[p] = EmptyBag /\ \A c \in Channels : net[c][Other(p)] = <<>>

\* A resumption of startMediaAndSendOffer, handleCallOffer or
\* handleCallAnswer that would carry the call forward.
ResumesCall(p) ==
    \/ StartMediaResume(p, TRUE) \/ StartMediaSendOffer(p)
    \/ HandleCallOfferMedia(p, TRUE) \/ HandleCallOfferSetRemote(p) \/ HandleCallOfferAnswer(p)
    \/ HandleCallAnswerResume(p)

SendsOfferOrAnswer(p) ==
    \E c \in Channels :
        /\ Len(net'[c][p]) > Len(net[c][p])
        /\ net'[c][p][Len(net'[c][p])].type \in {"call-offer", "call-answer"}

\* C7: a handler that resumes after the call was ended (callStatus is idle
\* again) is discarded: it does not set isInCall, does not move callStatus,
\* takes no capture and sends no call-offer or call-answer.
C7_ResumptionAfterEndIsDiscarded ==
    [][\A p \in Peers :
        (ResumesCall(p) /\ callStatus[p] = "idle")
            => /\ ~isInCall'[p] /\ callStatus'[p] = "idle"
               /\ live'[p] \subseteq live[p]
               /\ ~SendsOfferOrAnswer(p)]_vars

\* The caller hung up during the pause before createOffer, and its call-offer
\* went out all the same.
C7_OfferSentAfterHangUp ==
    \E p \in Peers, c \in Channels :
        /\ callStatus[p] = "idle" /\ ~isInCall[p] /\ localStream[p] = 0
        /\ Len(net[c][p]) >= 2
        /\ net[c][p][Len(net[c][p]) - 1].type = "call-end"
        /\ net[c][p][Len(net[c][p])].type = "call-offer"
        /\ nEvents = 1 /\ \A q \in Peers : pcConn[q] = "connected"

\* C8: the user declining an incoming call while callStatus is ringing sends
\* call-decline and puts the local callStatus to idle.
C8_LocalDeclineReturnsToIdle ==
    [][\A p \in Peers :
        (Decline(p) /\ callStatus[p] = "ringing")
            => /\ callStatus'[p] = "idle"
               /\ SendFails(p) \/ \E c \in Channels :
                    net'[c][p] = Append(net[c][p], Frame("call-decline", NoDesc))]_vars

\* After declining, the peer's own startCall is refused although no call is
\* pending or in progress.
C8_StartCallRefusedAfterDecline ==
    \E p \in Peers :
        /\ logged = Log(p, "Call already in progress or not ready")
        /\ callStatus[p] = "ringing" /\ ~incomingCall[p] /\ ~isInCall[p]
        /\ callStatus[Other(p)] = "idle" /\ tasks[p] = EmptyBag
        /\ \A c \in Channels, q \in Peers : net[c][q] = <<>>

\* C9: a call-decline received by the caller (callStatus calling or
\* connecting) returns callStatus to idle and, in the same step, stops the
\* local stream, clears it and takes its tracks off the transport.
C9_DeclineReleasesMedia ==
    [][\A p \in Peers, c \in Channels :
        (HandleCallDecline(c, p) /\ callStatus[p] \in {"calling", "connecting"})
            => /\ callStatus'[p] = "idle"
               /\ localStream'[p] = 0
               /\ localStream[p] \notin live'[p]
               /\ localStream[p] \notin senders'[p]]_vars

\* The caller is idle after a decline and still holds a live capture whose
\* tracks sit on the transport.
C9_CaptureHeldAfterDecline ==
    \E p \in Peers :
        /\ callStatus[p] = "idle" /\ ~isInCall[p] /\ tasks[p] = EmptyBag
        /\ localStream[p] # 0 /\ localStream[p] \in live[p] /\ localStream[p] \in senders[p]
        /\ callStatus[Other(p)] = "ringing" /\ nStreams[Other(p)] = 0

\* C10: a call-offer frame that arrives while callStatus is idle (no accept
\* is outstanding) is a no-op: no handler is started, so no capture is
\* requested, no track is added and the call does not become active.
C10_CallOfferWithoutAcceptIsNoOp ==
    [][\A p \in Peers, c \in Channels :
        (HandleCallOffer(c, p) /\ callStatus[p] = "idle")
            => UNCHANGED <<tasks, callVars, mediaVars>>]_vars

\* A peer that was idle when the call-offer arrived holds a capture and is in
\* an active call, while the peer that sent the offer has hung up.
C10_ActiveWithoutCaller ==
    \E p \in Peers :
        /\ callStatus[p] = "active" /\ isInCall[p] /\ localStream[p] \in live[p]
        /\ callStatus[Other(p)] = "idle" /\ ~isInCall[Other(p)]
        /\ tasks[Other(p)] = EmptyBag /\ localStream[Other(p)] = 0
        /\ \A c \in Channels : net[c][Other(p)] = <<>>
        /\ nEvents = 1 /\ \A q \in Peers : pcConn[q] = "connected"

\* C11: once the dataChannel handle of a peer is set, no later channel event
\* and no later createOffer replaces it, so a peer has at most one control
\* channel.
C11_ControlChannelNeverReplaced ==
    [][\A p \in Peers : dataChannel[p] # 0 => dataChannel'[p] = dataChannel[p]]_vars

\* A peer's handle points at the second channel while the first one, whose
\* onmessage handler is still attached, is open as well.
C11_TwoOpenChannels ==
    \E p \in Peers :
        /\ dataChannel[p] = 2
        /\ dcEnd[1][p] = "open" /\ dcEnd[2][p] = "open"
        /\ dataChannel[Other(p)] = 2

SendsCallEnd(p) ==
    \E c \in Channels :
        /\ Len(net'[c][p]) > Len(net[c][p])
        /\ net'[c][p][Len(net'[c][p])].type = "call-end"

\* C12: endCall run while callStatus is idle (end-call button or a received
\* call-end) leaves callStatus idle, sends no call-end frame and, when no
\* local stream is held any more, leaves the media state as it is.
C12_EndCallWhileIdleIsNoOp ==
    [][\A p \in Peers :
        (EndCallRuns(p) /\ callStatus[p] = "idle")
            => /\ callStatus'[p] = "idle"
               /\ ~SendsCallEnd(p)
               /\ localStream[p] = 0 => UNCHANGED mediaVars]_vars

\* callStatus is idle while isInCall is true and a capture is running: the
\* end-call buttons are shown and endCall will send call-end.
C12_IdleButInCall ==
    \E p \in Peers :
        /\ callStatus[p] = "idle" /\ isInCall[p]
        /\ localStream[p] \in live[p] /\ ~SendFails(p)

\* A frame that is a signalling envelope: a JSON object whose type is one of
\* the call types or chat.
ValidEnvelope(f) == f.kind = "object" /\ f.type \in CallTypes \cup {"chat"}

\* C13: a received frame that is not a valid envelope (not JSON, or JSON
\* without a recognised type) is appended to chatMessages exactly once, with
\* its raw text as the entry's text.
C13_InvalidFrameShownVerbatim ==
    [][\A p \in Peers, c \in Channels :
        (OnChatMessage(c, p) /\ ~ValidEnvelope(Head(net[c][Other(p)])))
            => chatMessages'[p] =
                 Append(chatMessages[p], [text |-> Head(net[c][Other(p)]).raw, isOwn |-> FALSE])]_vars

\* The chat list shows an entry without text for a frame that was JSON but
\* no envelope.
C13_BlankChatEntry ==
    \E p \in Peers :
        /\ chatMessages[p] # <<>>
        /\ chatMessages[p][Len(chatMessages[p])] = [text |-> Undefined, isOwn |-> FALSE]
        /\ \A c \in Channels : net[c][Other(p)] = <<>>

\* applyRemoteSDP is invoked at p on an answer while p has no local offer
\* outstanding.
AnswerWithoutOffer(p) ==
    /\ Parses(remoteSDP[p]) /\ Parse(remoteSDP[p]).type = "answer"
    /\ pcSig[p] # "have-local-offer"

\* C16: applying an answer while no local offer is outstanding preserves the
\* state (no peer connection is created; connectionStatus, callStatus and
\* the description buffers are as before), and the rejection is logged.
C16_AnswerWithoutOfferPreservesState ==
    [][\A p \in Peers :
        /\ (ApplyRemoteSDP(p) /\ AnswerWithoutOffer(p))
              => UNCHANGED <<pcVars, connectionStatus, callStatus, sdpVars>>
        /\ (ApplyRemoteSDPResolve(p) /\ pcSig[p] # "have-local-offer")
              => /\ logged' = Log(p, "Invalid remote SDP")
                 /\ UNCHANGED <<pcVars, connectionStatus, callStatus, sdpVars>>]_vars

\* A peer that never negotiated owns a peer connection after its user
\* applied an answer by mistake.
C16_ConnectionCreatedByAnswer ==
    \E p \in Peers :
        /\ pcConn[p] = "new" /\ pcLocal[p] = NoDesc /\ pcRemote[p] = NoDesc
        /\ dataChannel[p] = 0 /\ tasks[p] = EmptyBag
        /\ remoteSDP[p].type = "answer"
        /\ logged = Log(p, "Invalid remote SDP")

\* C17: applying an offer through the manual exchange on a connected session
\* is reported and aborted: createAnswerFromRemote is not started, so the
\* offer is not applied and no local description is published.
C17_OfferOnConnectedSessionAborted ==
    [][\A p \in Peers :
        (ApplyRemoteSDP(p) /\ pcConn[p] = "connected"
           /\ Parses(remoteSDP[p]) /\ Parse(remoteSDP[p]).type = "offer")
            => /\ UNCHANGED <<pcVars, tasks, sdpVars, connectionStatus, callVars>>
               /\ logged'.peer = p]_vars

\* A connected peer has answered an offer: the offer is its remote
\* description and the answer is published as Local SDP.
C17_AnswerPublishedWhileConnected ==
    \E p \in Peers :
        /\ pcConn[p] = "connected" /\ connectionStatus[p] = "connected"
        /\ localSDP[p] # EmptyText /\ localSDP[p].type = "answer"
        /\ pcRemote[p].type = "offer" /\ pcCur[p].remote = pcRemote[p]

\* The text in the Remote SDP box is not a description: not JSON, or JSON
\* whose type is neither offer nor answer.
Malformed(t) == ~Parses(t) \/ Parse(t).type \notin {"offer", "answer"}

\* C18: applyRemoteSDP on malformed input reports the error and changes no
\* state: no peer connection is created, no description is applied, and the
\* description buffers, connectionStatus and callStatus are as before.
C18_MalformedInputChangesNothing ==
    [][\A p \in Peers :
        /\ (ApplyRemoteSDP(p) /\ Malformed(remoteSDP[p]))
              => UNCHANGED <<pcVars, connectionStatus, callStatus, sdpVars>>
        /\ (ApplyRemoteSDP(p) /\ ~Parses(remoteSDP[p]))
              => logged' = Log(p, "Invalid remote SDP")
        /\ (ApplyRemoteSDPResolve(p)
             /\ \E t \in Pending(p) : t.fn = "applyRemoteSDP" /\ t.sdp.type = "other")
              => /\ logged' = Log(p, "Invalid remote SDP")
                 /\ UNCHANGED <<pcVars, connectionStatus, callStatus, sdpVars>>]_vars

\* A peer that never negotiated owns a peer connection after its user
\* applied JSON that is no description.
C18_ConnectionCreatedByJunk ==
    \E p \in Peers :
        /\ pcConn[p] = "new" /\ pcLocal[p] = NoDesc /\ pcRemote[p] = NoDesc
        /\ dataChannel[p] = 0 /\ tasks[p] = EmptyBag
        /\ remoteSDP[p] = OtherText
        /\ logged = Log(p, "Invalid remote SDP")

C15_PublishedOnlyAfterGathering ==
    \A p \in Peers : localSDP[p] # EmptyText => iceGathering[p] = "complete"

C15_Witness ==
    \E p \in Peers :
        /\ localSDP[p].type = "answer" /\ localSDP[Other(p)].type = "offer"
        /\ \A q \in Peers : iceGathering[q] = "complete"

\* C19: a startCall that takes callStatus from idle to calling puts exactly
\* one call-request frame in flight in the same step.
C19_CallingImpliesRequestSent ==
    [][\A p \in Peers :
        (StartCall(p) /\ callStatus[p] = "idle" /\ callStatus'[p] = "calling")
            => \E c \in Channels :
                 net' = [net EXCEPT ![c][p] = Append(@, Frame("call-request", NoDesc))]]_vars

\* A peer is calling on a connected session and no call-request ever left:
\* its channel handle was still null when startCall ran.
C19_CallingWithoutRequest ==
    \E p \in Peers :
        /\ callStatus[p] = "calling" /\ connectionStatus[p] = "connected"
        /\ dataChannel[p] = 0
        /\ logged = Log(p, "Cannot send call message - data channel not ready")
        /\ \A c \in Channels : net[c][p] = <<>>

\* C20: after getUserMedia is denied during call set-up, both peers'
\* callStatus returns to idle with isInCall false.
C20_MediaDenialReturnsBothToIdle ==
    \A p \in Peers :
        (logged = Log(p, "Media permissions denied"))
            ~> (\A q \in Peers : callStatus[q] = "idle" /\ ~isInCall[q])

\* The caller was denied media: its call-decline idled the callee, and the
\* caller itself is left connecting with nothing pending or in flight, while
\* further user events are still possible.
C20_CallerLeftConnecting ==
    \E p \in Peers :
        /\ nEvents < MaxEvents
        /\ callStatus[p] = "connecting" /\ ~isInCall[p] /\ nStreams[p] = 0
        /\ callStatus[Other(p)] = "idle"
        /\ \A q \in Peers : pcConn[q] = "connected" /\ tasks[q] = EmptyBag
        /\ \A c \in Channels, q \in Peers : net[c][q] = <<>>

\* getUserMedia was denied to p in this step, in startMediaAndSendOffer or in
\* handleCallOffer, on a transport that is connected.
MediaDenied(p) ==
    /\ pcConn[p] = "connected"
    /\ StartMediaResume(p, FALSE) \/ HandleCallOfferMedia(p, FALSE)

\* C21: when getUserMedia is denied during call set-up no stream is stored,
\* no track is added to a sender, the peer connection and connectionStatus
\* stay as they are, and one call-decline goes out to the peer.
C21_MediaDenialAbortsWithoutTeardown ==
    [][\A p \in Peers :
        MediaDenied(p) =>
            /\ UNCHANGED <<localStream, live, nStreams, senders, pcVars, connectionStatus, chanVars>>
            /\ \E c \in Channels :
                 net' = [net EXCEPT ![c][p] = Append(@, Frame("call-decline", NoDesc))]]_vars

\* The caller's capture was denied while its handle pointed at a channel
\* that is not open yet: the call-decline was dropped and the callee, still
\* ringing, is never told.
C21_DeclineDropped ==
    \E p \in Peers :
        /\ \A q \in Peers : pcConn[q] = "connected"
        /\ callStatus[p] = "connecting" /\ tasks[p] = EmptyBag
        /\ dataChannel[p] # 0 /\ dcEnd[dataChannel[p]][p] = "connecting"
        /\ logged = Log(p, "Cannot send call message - data channel not ready")
        /\ callStatus[Other(p)] = "ringing" /\ ~incomingCall[Other(p)]
        /\ \A c \in Channels, q \in Peers : net[c][q] = <<>>

\* C22: once the transport of p has reported disconnected or failed, no step
\* takes connectionStatus of p back to connected on that session; only a new
\* negotiation, which passes through new and connecting, could.
C22_TransportLossIsTerminal ==
    [][\A p \in Peers :
        pcConn[p] \in {"disconnected", "failed"} => connectionStatus'[p] # "connected"]_vars

\* C23: at most one capture of a peer has unstopped tracks at any moment.
C23_AtMostOneLiveCapture ==
    \A p \in Peers : Cardinality(live[p]) <= 1

\* A peer holds two captures with unstopped tracks: localStream refers to
\* the later one and the earlier one can no longer be stopped.
C23_TwoLiveCaptures ==
    \E p \in Peers :
        /\ Cardinality(live[p]) = 2 /\ localStream[p] = 2
        /\ tasks[p] = EmptyBag

C25_MuteToggleWithoutStreamIsNoOp ==
    [][\A p \in Peers, kind \in {"audio", "video"} :
        (ToggleMute(p, kind) /\ localStream[p] = 0)
            => UNCHANGED <<muteVars, trackOff, pcVars, chanVars, net, connectionStatus,
                           chatMessages, sdpVars, callVars, mediaVars, tasks>>]_vars

\* A mute button was pressed on a page that has done nothing else: the one
\* event spent so far left every signal at its initial value.
C25_Witness ==
    /\ nEvents = 1 /\ nOffers = 0 /\ nApply = 0
    /\ \A p \in Peers :
        /\ mounted[p] /\ pcConn[p] = "none" /\ localStream[p] = 0
        /\ ~isAudioMuted[p] /\ ~isVideoMuted[p] /\ trackOff[p] = {}
        /\ remoteSDP[p] = EmptyText /\ chatMessages[p] = <<>>

\* C24: when the component is torn down, the capture it holds is released:
\* after onCleanup no track of the local stream is left unstopped.
C24_TeardownReleasesCapture ==
    [][\A p \in Peers : Unmount(p) => localStream[p] \notin live'[p]]_vars

\* The component of a peer in an active call is gone and its pc closed, while
\* the capture it held still has unstopped tracks.
C24_CaptureLiveAfterTeardown ==
    \E p \in Peers :
        /\ ~mounted[p] /\ pcConn[p] = "closed"
        /\ callStatus[p] = "active" /\ isInCall[p]
        /\ localStream[p] # 0 /\ localStream[p] \in live[p]
        /\ tasks[p] = EmptyBag

\* The texts of the entries of a chat list that came from the peer.
RECURSIVE PeerTexts(_)
PeerTexts(list) ==
    IF list = <<>> THEN <<>>
    ELSE IF Head(list).isOwn THEN PeerTexts(Tail(list))
    ELSE <<Head(list).text>> \o PeerTexts(Tail(list))

IsPrefix(a, b) == Len(a) <= Len(b) /\ \A i \in 1..Len(a) : a[i] = b[i]

\* C26: the peer's messages on a chat list are, in order, the first of the
\* chat texts the peer handed to the channel: none lost, doubled or reordered.
C26_ChatDeliveredInSendOrder ==
    \A p \in Peers : IsPrefix(PeerTexts(chatMessages[p]), chatSent[Other(p)])

\* Everything the peer sent has been delivered, and the chat list does not
\* show what was sent.
C26_ChatListDiffersFromSent ==
    \E p \in Peers :
        /\ chatSent[Other(p)] # <<>>
        /\ Len(PeerTexts(chatMessages[p])) = Len(chatSent[Other(p)])
        /\ PeerTexts(chatMessages[p]) # chatSent[Other(p)]
        /\ \A c \in Channels : net[c][Other(p)] = <<>>

\* C28: a call-request received while callStatus is not idle does not set
\* callStatus to ringing and leaves the call state as it is.
C28_CallRequestOutsideIdleIsNoOp ==
    [][\A p \in Peers, c \in Channels :
        (HandleIncomingCall(c, p) /\ callStatus[p] # "idle")
            => UNCHANGED <<callStatus, isInCall, incomingCall>>]_vars

\* Both peers called at the same moment: each request overwrote the other
\* side's calling, and both are ringing with the modal open and no caller.
C28_BothRinging ==
    /\ \A p \in Peers :
        /\ callStatus[p] = "ringing" /\ incomingCall[p] /\ pcConn[p] = "connected"
    /\ \A c \in Channels, q \in Peers : net[c][q] = <<>>

\* C29: the step that resumes handleCallAnswer sets callStatus to active only
\* from connecting.
C29_ActiveOnlyFromConnecting ==
    [][\A p \in Peers :
        (HandleCallAnswerResume(p) /\ callStatus'[p] = "active")
            => callStatus[p] = "connecting"]_vars

\* A peer whose user had hung up (idle, capture released) is active again,
\* with isInCall false: the answer to its offer arrived after endCall.
C29_ActiveAfterHangUp ==
    \E p \in Peers :
        /\ callStatus[p] = "active" /\ ~isInCall[p] /\ localStream[p] = 0
        /\ tasks[p] = EmptyBag /\ pcConn[p] = "connected"
        /\ \A c \in Channels : net[c][Other(p)] = <<>>

\* C30: a callStatus other than idle is held only while connectionStatus is
\* connected.
C30_CallOnlyWhileConnected ==
    \A p \in Peers : callStatus[p] # "idle" => connectionStatus[p] = "connected"

\* The transport of a ringing peer failed: connectionStatus is disconnected
\* and the peer still rings.
C30_RingingWhileDisconnected ==
    \E p \in Peers :
        /\ callStatus[p] = "ringing" /\ incomingCall[p]
        /\ connectionStatus[p] = "disconnected" /\ pcConn[p] = "failed"

\* Both peers pressed call before either call-request arrived, both prompts
\* were shown and both users have responded: each peer is ringing with its
\* modal closed, and each response frame is on its way.
GlareAnswered ==
    /\ \A p \in Peers :
        /\ callStatus[p] = "ringing" /\ ~incomingCall[p]
        /\ pcConn[p] = "connected" /\ tasks[p] = EmptyBag
    /\ \E c \in Channels :
        \A p \in Peers :
            /\ dataChannel[p] = c /\ dcEnd[c][p] = "open"
            /\ Len(net[c][p]) = 1
            /\ net[c][p][1].type \in {"call-accept", "call-decline"}

BothIdle == \A p \in Peers : callStatus[p] = "idle"

\* C31: after both peers started a call at the same moment and both users
\* responded to their prompts, the call becomes active on both sides or both
\* peers return to idle.
C31_GlareResolves == GlareAnswered ~> (BothActive \/ BothIdle)

\* Both users accepted: each call-accept reached a peer that was no longer
\* calling and was dropped.  Both peers ring for ever, nothing is in flight,
\* nothing is pending, and no modal is open.
C31_BothStuckRinging ==
    /\ \A p \in Peers :
        /\ callStatus[p] = "ringing" /\ ~incomingCall[p] /\ ~isInCall[p]
        /\ pcConn[p] = "connected" /\ tasks[p] = EmptyBag /\ mounted[p]
        /\ dataChannel[p] # 0 /\ dcEnd[dataChannel[p]][p] = "open"
    /\ \A c \in Channels, q \in Peers : net[c][q] = <<>>

\* C32: a call-end frame received by a peer that is calling leaves the
\* attempt standing.  The attempt has not been accepted yet, so the frame
\* can only belong to an earlier call.
C32_StaleCallEndSparesNewAttempt ==
    [][\A p \in Peers, c \in Channels :
        (HandleCallEnd(c, p) /\ callStatus[p] = "calling")
            => callStatus'[p] = "calling"]_vars

\* One call was established and ended on both sides, the peer that had hung
\* up called again, and its new attempt is gone: it is idle while the other
\* peer rings with the modal open.
C32_NewAttemptReset ==
    \E p \in Peers :
        /\ callStatus[p] = "idle" /\ ~isInCall[p]
        /\ callStatus[Other(p)] = "ringing" /\ incomingCall[Other(p)]
        /\ \A q \in Peers : nStreams[q] = 1 /\ live[q] = {} /\ tasks[q] = EmptyBag
                            /\ pcConn[q] = "connected"
        /\ nEvents = 2
        /\ \A c \in Channels, q \in Peers : net[c][q] = <<>>

\* An established call (the media round completed on both sides, both were
\* in the call) has just been ended by a: a is idle and its call-end, the
\* only frame in flight, is on its way to b, who is still active.
EstablishedCallEnded(a) ==
    LET b == Other(a) IN
    /\ callStatus[a] = "idle" /\ ~isInCall[a]
    /\ callStatus[b] = "active" /\ isInCall[b]
    /\ \A p \in Peers : pcConn[p] = "connected" /\ pcSig[p] = "stable" /\ tasks[p] = EmptyBag
    /\ pcCur[a].local.media /\ pcCur[b].local.media
    /\ pcCur[a].remote = pcCur[b].local /\ pcCur[b].remote = pcCur[a].local
    /\ \E c \in Channels :
        /\ \A p \in Peers : dataChannel[p] = c /\ dcEnd[c][p] = "open"
        /\ net[c][a] = <<Frame("call-end", NoDesc)>>
        /\ net[c][b] = <<>>
        /\ \A d \in Channels \ {c}, q \in Peers : net[d][q] = <<>>

BothOutOfCall == \A p \in Peers : callStatus[p] = "idle" /\ ~isInCall[p]

\* A new call attempt has started, or a transport left connected (a page
\* torn down included).
NewAttemptOrLoss ==
    \E p \in Peers : callStatus[p] \in {"calling", "ringing"} \/ pcConn[p] # "connected"

\* C33: when one peer ends an established call the exchange of call-end
\* frames terminates.  A run of endCall sends call-end only if the peer was
\* in the call and leaves it out of the call, so each peer sends at most one
\* call-end per call; and once the first call-end is on its way both peers
\* end idle with isInCall false, unless a new attempt starts or the
\* transport is lost meanwhile.
C33_CallEndExchangeTerminates ==
    /\ [][\A p \in Peers :
            EndCallRuns(p) => /\ ~isInCall'[p]
                              /\ SendsCallEnd(p) => isInCall[p]]_vars
    /\ \A a \in Peers : EstablishedCallEnded(a) ~> (BothOutOfCall \/ NewAttemptOrLoss)

\* The exchange is over: both peers are idle and out of the call after an
\* established call, both captures are released, the second call-end (the
\* echo) has been consumed and nothing is in flight or pending.
C33_Witness ==
    /\ BothOutOfCall
    /\ \A p \in Peers :
        /\ pcConn[p] = "connected" /\ pcSig[p] = "stable" /\ tasks[p] = EmptyBag
        /\ nStreams[p] = 1 /\ live[p] = {} /\ localStream[p] = 0
        /\ pcCur[p].local.media /\ pcCur[p].remote.media
    /\ nEvents = 1
    /\ \A c \in Channels, q \in Peers : net[c][q] = <<>>

StartMediaTasks(bag) ==
    {t \in BagToSet(bag) : t.fn = "startMediaAndSendOffer"}

\* C34: a call-accept frame starts startMediaAndSendOffer (media acquisition,
\* then the call-offer) exactly when callStatus is calling; received in any
\* other state it is consumed without changing any state of the page and
\* without sending anything, and nothing else starts that handler.
C34_CallAcceptOnlyWhileCalling ==
    [][\A p \in Peers :
        /\ \A c \in Channels :
            HandleCallAccept(c, p) =>
                IF callStatus[p] = "calling"
                THEN /\ callStatus'[p] = "connecting"
                     /\ Task("startMediaAndSendOffer", "gum", NoDesc) \in BagToSet(tasks'[p])
                ELSE /\ UNCHANGED <<pcVars, chanVars, connectionStatus, chatMessages, sdpVars,
                                    callVars, mediaVars, tasks>>
                     /\ \A d \in Channels : net'[d][p] = net[d][p]
        /\ (StartMediaTasks(tasks'[p]) # {} /\ StartMediaTasks(tasks[p]) = {})
            => \E c \in Channels : HandleCallAccept(c, p) /\ callStatus[p] = "calling"]_vars

\* The peer's user accepted and the call-accept was delivered to a peer that
\* was ringing itself, its own modal still open: the frame is gone and
\* nothing has started.
C34_Witness ==
    \E p \in Peers :
        /\ callStatus[p] = "ringing" /\ incomingCall[p] /\ tasks[p] = EmptyBag
        /\ callStatus[Other(p)] = "ringing" /\ ~incomingCall[Other(p)]
        /\ \A q \in Peers : pcConn[q] = "connected" /\ nStreams[q] = 0 /\ mounted[q]
                            /\ dataChannel[q] # 0 /\ dcEnd[dataChannel[q]][q] = "open"
        /\ \A c \in Channels, q \in Peers : net[c][q] = <<>>

\* C35: callStatus active implies isInCall.
C35_ActiveImpliesInCall ==
    \A p \in Peers : callStatus[p] = "active" => isInCall[p]

\* Both peers show the call as active, but only one of them is in it: the
\* other has isInCall false, so its end-call control is absent, and holds no
\* capture.
C35_ActiveWithoutEndControl ==
    \E p \in Peers :
        /\ callStatus[p] = "active" /\ ~isInCall[p] /\ localStream[p] = 0 /\ live[p] = {}
        /\ callStatus[Other(p)] = "active" /\ isInCall[Other(p)]
        /\ localStream[Other(p)] \in live[Other(p)]
        /\ \A q \in Peers : pcConn[q] = "connected" /\ mounted[q]

\* C36: isInCall implies that callStatus is connecting or active.
C36_InCallImpliesConnectingOrActive ==
    \A p \in Peers : isInCall[p] => callStatus[p] \in {"connecting", "active"}

\* A peer that is in a call (capture running, tracks on the connection) is
\* ringing with the incoming-call modal open.
C36_RingingWhileInCall ==
    \E p \in Peers :
        /\ isInCall[p] /\ callStatus[p] = "ringing" /\ incomingCall[p]
        /\ localStream[p] \in live[p] /\ localStream[p] \in senders[p]
        /\ \A q \in Peers : pcConn[q] = "connected" /\ mounted[q]

\* C37: while an incoming-call prompt is pending, callStatus is ringing.
C37_PromptImpliesRinging ==
    \A p \in Peers : incomingCall[p] => callStatus[p] = "ringing"

\* The incoming-call modal is open on a peer whose callStatus is idle, with
\* nothing in flight and nothing pending.
C37_PromptWhileIdle ==
    \E p \in Peers :
        /\ incomingCall[p] /\ callStatus[p] = "idle" /\ ~isInCall[p]
        /\ \A q \in Peers : pcConn[q] = "connected" /\ mounted[q] /\ tasks[q] = EmptyBag
        /\ \A c \in Channels, q \in Peers : net[c][q] = <<>>

AudioOff(p) == <<localStream[p], "audio">> \in trackOff[p]
VideoOff(p) == <<localStream[p], "video">> \in trackOff[p]

\* C38: while a local stream is held each mute flag is true exactly when the
\* stream's tracks of that kind are disabled, and while none is held both
\* flags are false.
C38_MuteFlagsAgreeWithCapture ==
    \A p \in Peers :
        IF localStream[p] # 0
        THEN (isAudioMuted[p] <=> AudioOff(p)) /\ (isVideoMuted[p] <=> VideoOff(p))
        ELSE ~isAudioMuted[p] /\ ~isVideoMuted[p]

\* A peer in a call shows audio as muted while the audio track of the
\* capture it holds is enabled: the muted capture was replaced by a new one.
C38_MutedFlagOnLiveMicrophone ==
    \E p \in Peers :
        /\ isAudioMuted[p] /\ localStream[p] \in live[p] /\ ~AudioOff(p)
        /\ isInCall[p] /\ localStream[p] \in senders[p] /\ mounted[p]

RECURSIVE OwnTexts(_)
OwnTexts(list) ==
    IF list = <<>> THEN <<>>
    ELSE IF Head(list).isOwn THEN <<Head(list).text>> \o OwnTexts(Tail(list))
    ELSE OwnTexts(Tail(list))

\* C39: sendMessage records no own message when the data channel is missing
\* or not open, so the own messages of a chat list are, in order, chat texts
\* the peer put on the channel.
C39_OwnMessagesWereSent ==
    [][\A p \in Peers, m \in ChatTexts :
        (SendMessage(p, m) /\ SendFails(p))
            => OwnTexts(chatMessages'[p]) = OwnTexts(chatMessages[p])]_vars

\* A connected peer shows a message as its own that never left: nothing was
\* handed to the channel, nothing is in flight, and the peer's list is empty.
C39_OwnMessageNeverSent ==
    \E p \in Peers :
        /\ OwnTexts(chatMessages[p]) # <<>> /\ chatSent[p] = <<>>
        /\ connectionStatus[p] = "connected" /\ pcConn[p] = "connected" /\ mounted[p]
        /\ chatMessages[Other(p)] = <<>>
        /\ \A c \in Channels : net[c][p] = <<>>
====
